---- MODULE Spec2Model ----
(***************************************************************************)
(* Z-A-Meta: the relative-strength scorer (calculateMetaMatrix over the    *)
(* type chart) and the force-directed matchup graph of PokemonAnalyzer     *)
(* (node physics, drag, pan, zoom, reset, graph reload).                   *)
(*                                                                         *)
(* Numbers.  JavaScript doubles are modelled as exact fixed-point values:  *)
(*   - type multipliers are kept in halves (getEffectiveness, 2 = neutral) *)
(*     and a product over a defender's types in quarters (4 = neutral);    *)
(*   - stat scores are kept in tenths (20*hp + 13*max(atk,spAtk) + ...);   *)
(*   - win rates are kept in tenths of a percent (450 = 45.0);             *)
(*   - graph coordinates, velocities and forces are kept in tenths of an   *)
(*     SVG unit, the view scale in thousandths.                            *)
(* NaN is kept as an explicit value: a number is [nan, v].                 *)
(***************************************************************************)
EXTENDS Integers, Sequences, FiniteSets, TLC

VARIABLES
    \* geminiService.ts: one call of calculateMetaMatrix
    pokemonList,       \* the pool handed to calculateMetaMatrix
    generation,        \* the ruleset handed to calculateMetaMatrix
    scored,            \* what calculateMetaMatrix produced
    pc,                \* "ready" before the call of calculateMetaMatrix, "done" after it
    \* constants.ts: one call of getEffectiveness
    chartAttacker,     \* the arguments of getEffectiveness
    chartDefender,
    effect,            \* what getEffectiveness returned, [type |-> "pending"] before the call
    \* App.tsx, MetaDashboard.tsx and the meta cache of geminiService.ts
    appGeneration,     \* App state generation
    appSeason,         \* App state season
    metaDataCache,     \* App state metaDataCache: Null or {key, data}
    dashLoading,       \* MetaDashboard state loading
    retryCount,        \* MetaDashboard state retryCount
    fetches,           \* the calls of fetchMeta in flight
    effectPending,     \* a render was committed whose fetch effect has not run yet
    metaCache,         \* geminiService metaCache, as the set of its {key, data} entries
    apiKey,            \* process.env.API_KEY is set
    isGlobalOffline,
    \* PokemonAnalyzer.tsx: component state
    data,              \* name of the displayed analysis, "null" when there is none
    loading,           \* the loading flag
    requests,          \* analyzePokemon calls in flight, in the order they were issued
    issued,            \* the query of the last call of handleAnalyze, "null" before the first
    advancedTopology,  \* the force-directed view is switched on
    nodes,             \* the GraphNode list
    transform,         \* the view transform {x, y, scale}
    isPanning,
    lastMousePos,
    dragRef,           \* dragRef.current
    requestRef,        \* requestRef.current: the id of the last frame request
    frames,            \* ids of the frame requests whose animate callback is pending
    mounted,           \* the component is mounted
    lastEvent,         \* the handler that ran last, with its argument
    steps,             \* number of events handled so far
    \* geminiService.ts: the service functions and generateContentWithRetry
    run,               \* one invocation of generateContentWithRetry
    pending,           \* the calls of the service functions in flight
    analysisCache,     \* analysisCache, as the set of its {key, data} entries
    teamCache,         \* teamCache, as the set of its {key, data} entries
    clients,           \* number of GoogleGenAI clients created so far
    backendCalls,      \* number of calls of client.models.generateContent so far
    serviceEvent       \* what the service did last

scoreVars == <<pokemonList, generation, scored, pc, chartAttacker, chartDefender, effect>>

dashVars == <<appGeneration, appSeason, metaDataCache, dashLoading, retryCount,
              fetches, effectPending, metaCache, apiKey, isGlobalOffline>>

graphVars == <<data, loading, requests, issued, advancedTopology, nodes, transform,
               isPanning, lastMousePos, dragRef, requestRef, frames, mounted, lastEvent, steps>>

serviceVars == <<run, pending, analysisCache, teamCache, clients, backendCalls, serviceEvent>>

vars == <<pokemonList, generation, scored, pc, chartAttacker, chartDefender, effect,
          appGeneration, appSeason, metaDataCache, dashLoading, retryCount,
          fetches, effectPending, metaCache, apiKey, isGlobalOffline,
          data, loading, requests, issued, advancedTopology, nodes, transform,
          isPanning, lastMousePos, dragRef, requestRef, frames, mounted, lastEvent, steps,
          run, pending, analysisCache, teamCache, clients, backendCalls, serviceEvent>>

(***************************************************************************)
(* Numbers with NaN                                                        *)
(***************************************************************************)
NaN == [nan |-> TRUE, v |-> 0]

Fin(n) == [nan |-> FALSE, v |-> n]

Abs(n) == IF n < 0 THEN -n ELSE n

Max2(a, b) == IF a >= b THEN a ELSE b

Min2(a, b) == IF a <= b THEN a ELSE b

\* integer quotient rounded toward zero (the sign-symmetric rounding of a double)
DivZ(a, b) == IF (a >= 0) = (b > 0) THEN Abs(a) \div Abs(b) ELSE -(Abs(a) \div Abs(b))

(***************************************************************************)
(* constants.ts: the type chart, multipliers in halves                     *)
(***************************************************************************)
PokemonType ==
    {"Normal", "Fire", "Water", "Electric", "Grass", "Ice", "Fighting", "Poison",
     "Ground", "Flying", "Psychic", "Bug", "Rock", "Ghost", "Dragon", "Steel",
     "Dark", "Fairy", "None"}

typeChartData ==
    [Normal   |-> [Rock |-> 1, Ghost |-> 0, Steel |-> 1],
     Fire     |-> [Fire |-> 1, Water |-> 1, Grass |-> 4, Ice |-> 4, Bug |-> 4, Rock |-> 1, Dragon |-> 1, Steel |-> 4],
     Water    |-> [Fire |-> 4, Water |-> 1, Grass |-> 1, Ground |-> 4, Rock |-> 4, Dragon |-> 1],
     Electric |-> [Water |-> 4, Electric |-> 1, Grass |-> 1, Ground |-> 0, Flying |-> 4, Dragon |-> 1],
     Grass    |-> [Fire |-> 1, Water |-> 4, Grass |-> 1, Poison |-> 1, Ground |-> 4, Flying |-> 1, Bug |-> 1, Rock |-> 4, Dragon |-> 1, Steel |-> 1],
     Ice      |-> [Fire |-> 1, Water |-> 1, Grass |-> 4, Ice |-> 1, Ground |-> 4, Flying |-> 4, Dragon |-> 4, Steel |-> 1],
     Fighting |-> [Normal |-> 4, Ice |-> 4, Poison |-> 1, Flying |-> 1, Psychic |-> 1, Bug |-> 1, Rock |-> 4, Ghost |-> 0, Dark |-> 4, Steel |-> 4, Fairy |-> 1],
     Poison   |-> [Grass |-> 4, Poison |-> 1, Ground |-> 1, Rock |-> 1, Ghost |-> 1, Steel |-> 0, Fairy |-> 4],
     Ground   |-> [Fire |-> 4, Electric |-> 4, Grass |-> 1, Poison |-> 4, Flying |-> 0, Bug |-> 1, Rock |-> 4, Steel |-> 4],
     Flying   |-> [Electric |-> 1, Grass |-> 4, Fighting |-> 4, Bug |-> 4, Rock |-> 1, Steel |-> 1],
     Psychic  |-> [Fighting |-> 4, Poison |-> 4, Psychic |-> 1, Dark |-> 0, Steel |-> 1],
     Bug      |-> [Fire |-> 1, Grass |-> 4, Fighting |-> 1, Poison |-> 1, Flying |-> 1, Psychic |-> 4, Ghost |-> 1, Dark |-> 4, Steel |-> 1, Fairy |-> 1],
     Rock     |-> [Fire |-> 4, Ice |-> 4, Fighting |-> 1, Ground |-> 1, Flying |-> 4, Bug |-> 4, Steel |-> 1],
     Ghost    |-> [Normal |-> 0, Psychic |-> 4, Ghost |-> 4, Dark |-> 1],
     Dragon   |-> [Dragon |-> 4, Steel |-> 1, Fairy |-> 0],
     Steel    |-> [Fire |-> 1, Water |-> 1, Electric |-> 1, Ice |-> 4, Rock |-> 4, Steel |-> 1, Fairy |-> 4],
     Dark     |-> [Fighting |-> 1, Psychic |-> 4, Ghost |-> 4, Dark |-> 1, Fairy |-> 1],
     Fairy    |-> [Fire |-> 1, Fighting |-> 4, Poison |-> 1, Dragon |-> 4, Steel |-> 1, Dark |-> 4]]

\* a number a JavaScript expression yields; multipliers are in halves:
\* 0 = no effect, 1 = 0.5x, 2 = neutral, 4 = 2x
Number(h) == [type |-> "number", v |-> h]

\* members every plain object inherits from Object.prototype
ObjectPrototype == {"constructor", "toString", "valueOf", "hasOwnProperty"}

\* obj[key] for a plain object with the own properties of the function obj:
\* the own property, else the inherited member (a function), else undefined
Property(obj, key) ==
    IF key \in DOMAIN obj THEN [type |-> "own", v |-> obj[key]]
    ELSE IF key \in ObjectPrototype THEN [type |-> "function"]
    ELSE [type |-> "undefined"]

\* "return modifier !== undefined ? modifier : 1"
modifierOr1(modifier) ==
    IF modifier.type = "undefined" THEN Number(2)
    ELSE IF modifier.type = "own" THEN Number(modifier.v)
    ELSE modifier

\* "if (!attackerData) return 1; const modifier = attackerData[defender]"
modifierOf(attackerData, defender) ==
    IF attackerData.type = "undefined" THEN Number(2)
    ELSE modifierOr1(Property(IF attackerData.type = "own" THEN attackerData.v ELSE <<>>, defender))

\* getEffectiveness.  A member inherited by typeChartData is a function, whose
\* property named defender is again inherited or undefined.
getEffectiveness(attacker, defender) ==
    IF attacker = "None" \/ defender = "None" THEN Number(2)
    ELSE modifierOf(Property(typeChartData, attacker), defender)

(***************************************************************************)
(* geminiService.ts: calculateMetaMatrix                                   *)
(***************************************************************************)
StatFields == {"hp", "attack", "defense", "spAtk", "spDef", "speed"}

\* the standard weight under every ruleset
speedWeight_Standard(gen) == 4

\* speedWeight in tenths: 0 under legends-za, 0.4 otherwise
speedWeight(gen) == IF gen = "legends-za" THEN 0 ELSE 4

\* one element of statScores, in tenths; a missing stat field reads as
\* undefined and every arithmetic use of it yields NaN
statScore(p, gen) ==
    IF StatFields \subseteq DOMAIN p.stats
    THEN Fin(20 * p.stats.hp
             + 13 * Max2(p.stats.attack, p.stats.spAtk)
             + 10 * (p.stats.defense + p.stats.spDef)
             + speedWeight(gen) * p.stats.speed)
    ELSE NaN

statScores(list, gen) == [i \in 1..Len(list) |-> statScore(list[i], gen)]

RECURSIVE SeqMax(_)
SeqMax(s) == IF Len(s) = 1 THEN s[1] ELSE Max2(s[1], SeqMax(Tail(s)))

RECURSIVE SeqMin(_)
SeqMin(s) == IF Len(s) = 1 THEN s[1] ELSE Min2(s[1], SeqMin(Tail(s)))

\* Math.max(...xs) and Math.min(...xs): NaN as soon as one argument is NaN
MathMax(xs) ==
    IF \E i \in DOMAIN xs : xs[i].nan THEN NaN
    ELSE Fin(SeqMax([i \in DOMAIN xs |-> xs[i].v]))

MathMin(xs) ==
    IF \E i \in DOMAIN xs : xs[i].nan THEN NaN
    ELSE Fin(SeqMin([i \in DOMAIN xs |-> xs[i].v]))

\* x || d : the default replaces 0 and NaN
OrDefault(x, d) == IF x.nan \/ x.v = 0 THEN d ELSE x.v

\* maxStat = Math.max(...statScores) || 1 ; minStat = Math.min(...statScores) || 0  (tenths)
maxStat(list, gen) == OrDefault(MathMax(statScores(list, gen)), 10)

minStat(list, gen) == OrDefault(MathMin(statScores(list, gen)), 0)

\* the inner loop "let m = 1; types.forEach(def => m *= getEffectiveness(atk, def))",
\* in quarters; exact for at most two defending types
RECURSIVE TypeProduct(_, _)
TypeProduct(atk, defs) ==
    IF Len(defs) = 0 THEN 4
    ELSE (TypeProduct(atk, SubSeq(defs, 1, Len(defs) - 1)) * getEffectiveness(atk, defs[Len(defs)]).v) \div 2

\* "let off = 0; atkTypes.forEach(atk => { ...; if (m > off) off = m })", in quarters
RECURSIVE BestMult(_, _)
BestMult(atkTypes, defTypes) ==
    IF Len(atkTypes) = 0 THEN 0
    ELSE Max2(BestMult(Tail(atkTypes), defTypes), TypeProduct(Head(atkTypes), defTypes))

\* the term with the subtraction of def forgotten
Contribution_OffenceOnly(list, i, j) == BestMult(list[i].types, list[j].types)

\* the term with def started at 1 ("let def = 1"), in quarters
Contribution_DefFromOne(list, i, j) ==
    BestMult(list[i].types, list[j].types) - Max2(4, BestMult(list[j].types, list[i].types))

\* the term (off - def) that opponent j adds to subject i's adv, in quarters
Contribution(list, i, j) ==
    BestMult(list[i].types, list[j].types) - BestMult(list[j].types, list[i].types)

RECURSIVE AdvOver(_, _, _)
AdvOver(list, i, n) ==
    IF n = 0 THEN 0
    ELSE AdvOver(list, i, n - 1) + (IF n = i THEN 0 ELSE Contribution(list, i, n))

\* the scores with the term taken as (def - off)
matchupScores_DefMinusOff(list) == [i \in 1..Len(list) |-> 0 - AdvOver(list, i, Len(list))]

matchupScores(list) == [i \in 1..Len(list) |-> AdvOver(list, i, Len(list))]

\* maxMatch = Math.max(...matchupScores) || 1 ; minMatch = Math.min(...matchupScores) || 0  (quarters)
maxMatch(list) == OrDefault(Fin(SeqMax(matchupScores(list))), 4)

minMatch(list) == OrDefault(Fin(SeqMin(matchupScores(list))), 0)

\* (s - minStat) / (maxStat - minStat || 1) as the fraction [nan, num, den], in tenths
normStat(s, lo, hi) ==
    [nan |-> s.nan,
     num |-> IF s.nan THEN 0 ELSE s.v - lo,
     den |-> IF hi - lo = 0 THEN 10 ELSE hi - lo]

\* nStat as the fraction [nan, num, den]
nStat(list, gen, i) == normStat(statScores(list, gen)[i], minStat(list, gen), maxStat(list, gen))

\* (m - minMatch) / (maxMatch - minMatch || 1) as the fraction [num, den], in quarters
normMatch(m, lo, hi) ==
    [num |-> m - lo,
     den |-> IF hi - lo = 0 THEN 4 ELSE hi - lo]

\* nMatch as the fraction [num, den]
nMatch(list, i) == normMatch(matchupScores(list)[i], minMatch(list), maxMatch(list))

\* mech without the crowd-control bonus
mech_AreaOnly(p) == 5 + (IF p.isAOE THEN 3 ELSE 0)

\* mech in tenths
mech(p) == 5 + (IF p.isAOE THEN 3 ELSE 0) + (IF p.hasCrowdControl THEN 2 ELSE 0)

\* a * 0.35 + c * 0.45 + m * 0.2 for the fractions a and c and m in tenths
weighted(a, c, m) ==
    [nan |-> a.nan,
     num |-> 35 * a.num * c.den + 45 * c.num * a.den + 2 * m * a.den * c.den,
     den |-> 100 * a.den * c.den]

\* raw = nStat * WEIGHT_STATS + nMatch * WEIGHT_MATCHUP + mech * WEIGHT_MECHANICS
\* as the fraction [nan, num, den]; den is the same for every entry of a pool
raw(list, gen, i) == weighted(nStat(list, gen, i), nMatch(list, i), mech(list[i]))

\* (45 + r * 33).toFixed(1) of the fraction r, in tenths of a percent;
\* toFixed rounds to the nearest tenth, a tie to the larger one
toFixed1(r) ==
    IF r.nan THEN NaN
    ELSE Fin(450 + ((2 * 33 * r.num + (r.den \div 10)) \div (2 * (r.den \div 10))))

\* a mapping of raw onto the band turned upside down: 78 - raw * 33
winRate_Inverted(list, gen, i) ==
    LET r   == raw(list, gen, i)
        den == r.den \div 10
    IN  IF r.nan THEN NaN
        ELSE Fin(780 - ((2 * 33 * r.num + den) \div (2 * den)))

\* parseFloat((45 + raw * 33).toFixed(1)) in tenths of a percent
winRate(list, gen, i) == toFixed1(raw(list, gen, i))

\* a copy that carries over the fields the scorer read, { types, stats, winRate }
WithWinRate_ScoredFieldsOnly(p, w) ==
    [f \in ((DOMAIN p) \cap {"types", "stats"}) \cup {"winRate"} |-> IF f = "winRate" THEN w ELSE p[f]]

\* { ...p, winRate: w }
WithWinRate(p, w) ==
    [f \in (DOMAIN p) \cup {"winRate"} |-> IF f = "winRate" THEN w ELSE p[f]]

\* calculateMetaMatrix: reading p.stats.hp of an entry without a stats object
\* throws a TypeError
calculateMetaMatrix(list, gen) ==
    IF Len(list) = 0 THEN [threw |-> FALSE, list |-> <<>>]
    ELSE IF \E i \in 1..Len(list) : "stats" \notin DOMAIN list[i]
    THEN [threw |-> TRUE, list |-> <<>>]
    ELSE [threw |-> FALSE,
          list  |-> [i \in 1..Len(list) |-> WithWinRate(list[i], winRate(list, gen, i))]]

(***************************************************************************)
(* PokemonAnalyzer.tsx: analyses and graph nodes                           *)
(***************************************************************************)
Matchup(opponent, types, result) ==
    [opponentEn |-> opponent, opponentTypes |-> types, result |-> result]

\* what analyzePokemon resolves to for each query; matchupNetwork is an
\* optional field of PokemonAnalysis, and the mock analysis carries an empty one
Analyses ==
    [Zygarde |-> [nameEn |-> "Zygarde",
                  matchupNetwork |-> <<Matchup("Xerneas", <<"Fairy">>, "lose"),
                                       Matchup("Charizard", <<"Fire", "Flying">>, "check")>>],
     Xerneas |-> [nameEn |-> "Xerneas",
                  matchupNetwork |-> <<Matchup("Aegislash", <<"Steel", "Ghost">>, "lose")>>],
     Garchomp |-> [nameEn |-> "Garchomp",
                   matchupNetwork |-> <<Matchup("Xerneas", <<"fairy">>, "lose"),
                                        Matchup("Reshiram", <<"Dragon", "FIRE">>, "check")>>],
     Ditto   |-> [nameEn |-> "Ditto", matchupNetwork |-> <<>>],
     Unown   |-> [nameEn |-> "Unown"]]

Queries == DOMAIN Analyses

analyzePokemon(query) == query

\* data?.matchupNetwork is truthy (an array, possibly empty)
HasNetwork(d) == d /= "null" /\ "matchupNetwork" \in DOMAIN Analyses[d]

Network(d) == IF HasNetwork(d) THEN Analyses[d].matchupNetwork ELSE <<>>

\* the topology card (with its Simple/Advanced toggle) is rendered
TopologyShown(d) == HasNetwork(d) /\ Len(Network(d)) > 0

centerNodePos == [x |-> 3000, y |-> 2000]

initialRadius == 1200

\* (cos(angle), sin(angle)) * initialRadius for angle = (i / count) * 2 * PI,
\* rounded to tenths; row count, column i + 1
CircleOffsets ==
    << << <<1200, 0>> >>,
       << <<1200, 0>>, <<-1200, 0>> >>,
       << <<1200, 0>>, <<-600, 1039>>, <<-600, -1039>> >>,
       << <<1200, 0>>, <<0, 1200>>, <<-1200, 0>>, <<0, -1200>> >> >>

\* the node list the [data] effect builds
InitialNodes(d) ==
    LET net == Network(d)
        count == Len(net)
    IN  [i \in 1..count |->
            [id |-> i - 1,
             matchup |-> net[i],
             x  |-> Fin(centerNodePos.x + CircleOffsets[count][i][1]),
             y  |-> Fin(centerNodePos.y + CircleOffsets[count][i][2]),
             vx |-> Fin(0),
             vy |-> Fin(0),
             isDragging |-> FALSE]]

Identity == [x |-> 0, y |-> 0, scale |-> 1000]

\* useEffect(..., [data]): runs when data changed
NodesAfterData(old, new, ns) ==
    IF new /= old /\ HasNetwork(new) THEN InitialNodes(new) ELSE ns

\* the transform kept across a reload
TransformAfterData_Kept(old, new, t) == t

TransformAfterData(old, new, t) ==
    IF new /= old /\ HasNetwork(new) THEN Identity ELSE t

\* a cancel that leaves the request pending
CancelFrame_Noop(ref, fs) == fs

\* cancelAnimationFrame(requestRef.current)
CancelFrame(ref, fs) == fs \ {ref}

\* requestRef.current = requestAnimationFrame(animate): the browser hands out
\* increasing ids, and every id this component is given is stored in requestRef
RequestFrame(ref, fs) == [ref |-> ref + 1, frames |-> fs \cup {ref + 1}]

\* a scheduling effect that does not look at nodes.length
FrameAfter_AnyLength(advOld, lenOld, advNew, lenNew, ref, fs) ==
    IF advNew /= advOld \/ lenNew /= lenOld
    THEN IF advNew
         THEN RequestFrame(ref, CancelFrame(ref, fs))
         ELSE [ref |-> ref, frames |-> CancelFrame(ref, fs)]
    ELSE [ref |-> ref, frames |-> fs]

\* useEffect(..., [advancedTopology, animate, nodes.length]): when a dependency
\* changed the cleanup cancels the request requestRef names and the effect
\* requests a frame if the view is on and there are nodes
FrameAfter(advOld, lenOld, advNew, lenNew, ref, fs) ==
    IF advNew /= advOld \/ lenNew /= lenOld
    THEN IF advNew /\ lenNew > 0
         THEN RequestFrame(ref, CancelFrame(ref, fs))
         ELSE [ref |-> ref, frames |-> CancelFrame(ref, fs)]
    ELSE [ref |-> ref, frames |-> fs]

\* a frame callback is pending
framePending == frames /= {}

(***************************************************************************)
(* PokemonAnalyzer.tsx: animate, the physics step (tenths of a unit)       *)
(***************************************************************************)
REPULSION == 20000

SPRING == 5          \* 0.005, in thousandths

DAMPING == 85        \* 0.85, in hundredths

MAX_SPEED == 20      \* 2

restLength == 1500   \* 150

clearance == 1000    \* the "cDist < 100" radius

clearanceForce == 500    \* 50

BoxMinX == -5000

BoxMaxX == 11000

BoxMinY == -5000

BoxMaxY == 9000

\* least r with r * r >= n (Math.sqrt, rounded up), for 0 <= n <= 46340^2
RECURSIVE SqrtSearch(_, _, _)
SqrtSearch(n, lo, hi) ==
    IF lo >= hi THEN lo
    ELSE LET mid == (lo + hi) \div 2
         IN  IF mid * mid >= n THEN SqrtSearch(n, lo, mid) ELSE SqrtSearch(n, mid + 1, hi)

Sqrt(n) == SqrtSearch(n, 0, 46340)

\* Math.sqrt(a*a + b*b); large operands are scaled down before squaring
Hypot(a, b) ==
    LET k == (Max2(Abs(a), Abs(b)) \div 20000) + 1
        p == DivZ(a, k)
        q == DivZ(b, k)
    IN  Sqrt(p * p + q * q) * k

\* one term of the repulsion loop: <<(dx / dist) * force, (dy / dist) * force>>
\* with force = REPULSION / distSq; beyond 447.2 units the force is below a
\* twentieth of a unit and the term is 0 at this resolution
RepulsionTerm(nx, ny, ox, oy) ==
    LET dx == nx - ox
        dy == ny - oy
    IN  IF Abs(dx) > 4472 \/ Abs(dy) > 4472 THEN <<0, 0>>
        ELSE LET sq     == dx * dx + dy * dy
                 distSq == IF sq = 0 THEN 100 ELSE sq
                 dist   == Sqrt(distSq)
             IN  <<DivZ(DivZ(dx * REPULSION, dist) * 1000, distSq),
                   DivZ(DivZ(dy * REPULSION, dist) * 1000, distSq)>>

RECURSIVE RepulsionSum(_, _, _)
RepulsionSum(ns, i, j) ==
    IF j = 0 THEN <<0, 0>>
    ELSE LET rest == RepulsionSum(ns, i, j - 1)
             term == IF j = i THEN <<0, 0>>
                     ELSE RepulsionTerm(ns[i].x.v, ns[i].y.v, ns[j].x.v, ns[j].y.v)
         IN  <<rest[1] + term[1], rest[2] + term[2]>>

\* the body of newNodes.forEach((node, i) => ...) for a node whose inputs are
\* all finite and which is not on the anchor
MoveNode(ns, i) ==
    LET node  == ns[i]
        rep   == RepulsionSum(ns, i, Len(ns))
        cDx   == node.x.v - centerNodePos.x
        cDy   == node.y.v - centerNodePos.y
        cDist == Hypot(cDx, cDy)
        pushX == IF cDist < clearance THEN DivZ(cDx * clearanceForce, cDist) ELSE 0
        pushY == IF cDist < clearance THEN DivZ(cDy * clearanceForce, cDist) ELSE 0
        \* (cDx / cDist) * pull with pull = (cDist - restLength) * SPRING
        pullX == DivZ(cDx * (cDist - restLength), cDist * (1000 \div SPRING))
        pullY == DivZ(cDy * (cDist - restLength), cDist * (1000 \div SPRING))
        fx    == rep[1] + pushX - pullX
        fy    == rep[2] + pushY - pullY
        vx1   == node.vx.v + fx
        vy1   == node.vy.v + fy
        over  == \/ Abs(vx1) > MAX_SPEED
                 \/ Abs(vy1) > MAX_SPEED
                 \/ vx1 * vx1 + vy1 * vy1 > MAX_SPEED * MAX_SPEED
        speed == Hypot(vx1, vy1)
        vx2   == IF over THEN DivZ(vx1 * MAX_SPEED, speed) ELSE vx1
        vy2   == IF over THEN DivZ(vy1 * MAX_SPEED, speed) ELSE vy1
        x1    == node.x.v + vx2
        y1    == node.y.v + vy2
        vx3   == DivZ(vx2 * DAMPING, 100)
        vy3   == DivZ(vy2 * DAMPING, 100)
    IN  [node EXCEPT
           !.x  = Fin(IF x1 < BoxMinX THEN BoxMinX ELSE IF x1 > BoxMaxX THEN BoxMaxX ELSE x1),
           !.y  = Fin(IF y1 < BoxMinY THEN BoxMinY ELSE IF y1 > BoxMaxY THEN BoxMaxY ELSE y1),
           !.vx = Fin(IF x1 < BoxMinX \/ x1 > BoxMaxX THEN -vx3 ELSE vx3),
           !.vy = Fin(IF y1 < BoxMinY \/ y1 > BoxMaxY THEN -vy3 ELSE vy3)]

\* a NaN among the node's own numbers or another node's position makes every
\* force term NaN; on the anchor cDist is 0 and cDx / cDist is 0 / 0
Poisoned(ns, i) ==
    \/ ns[i].x.nan \/ ns[i].y.nan \/ ns[i].vx.nan \/ ns[i].vy.nan
    \/ \E j \in DOMAIN ns : j /= i /\ (ns[j].x.nan \/ ns[j].y.nan)
    \/ (ns[i].x.v = centerNodePos.x /\ ns[i].y.v = centerNodePos.y)

\* the update without the "if (node.isDragging) return"
UpdateNode_DraggedToo(ns, i) ==
    IF Poisoned(ns, i)
    THEN [ns[i] EXCEPT !.x = NaN, !.y = NaN, !.vx = NaN, !.vy = NaN]
    ELSE MoveNode(ns, i)

UpdateNode(ns, i) ==
    IF ns[i].isDragging THEN ns[i]
    ELSE IF Poisoned(ns, i)
         THEN [ns[i] EXCEPT !.x = NaN, !.y = NaN, !.vx = NaN, !.vy = NaN]
         ELSE MoveNode(ns, i)

\* the forEach updates the copies in place: node i sees the new positions of
\* the nodes before it
RECURSIVE UpdateFrom(_, _)
UpdateFrom(ns, i) ==
    IF i > Len(ns) THEN ns
    ELSE UpdateFrom([ns EXCEPT ![i] = UpdateNode(ns, i)], i + 1)

PhysicsStep(ns) == UpdateFrom(ns, 1)

(***************************************************************************)
(* PokemonAnalyzer.tsx: handlers.  Each action is one handler together     *)
(* with the effects React runs after the state change it makes.            *)
(***************************************************************************)
MaxSteps == 6

MaxRequests == 2

PanLimit == 1200

\* pointer positions in SVG user space (the SVG has no viewBox, so client
\* coordinates differ from them by a constant offset, taken as 0): the anchor,
\* the initial position of node-0, and a point above the anchor
Pointer == {[x |-> 3000, y |-> 2000], [x |-> 4200, y |-> 2000], [x |-> 3000, y |-> 800]}

WheelDeltas == {3000, -3000}

Null == [null |-> TRUE]

\* no service function was called and generateContentWithRetry was not invoked
ServiceIdle ==
    /\ run = [phase |-> "idle"]
    /\ pending = <<>>
    /\ analysisCache = {}
    /\ teamCache = {}
    /\ clients = 0
    /\ backendCalls = 0
    /\ serviceEvent = [type |-> "none"]

\* the <svg> of renderForceDirectedGraph is mounted
GraphVisible == mounted /\ TopologyShown(data) /\ advancedTopology

Budget == steps < MaxSteps /\ steps' = steps + 1

\* handleAnalyze up to the await
handleAnalyze(query) ==
    /\ Budget
    /\ mounted
    /\ Len(requests) < MaxRequests
    /\ loading' = TRUE
    /\ data' = IF data = "null" \/ Analyses[data].nameEn /= query THEN "null" ELSE data
    /\ requests' = Append(requests, query)
    /\ issued' = query
    /\ nodes' = NodesAfterData(data, data', nodes)
    /\ transform' = TransformAfterData(data, data', transform)
    /\ LET f == FrameAfter(advancedTopology, Len(nodes), advancedTopology, Len(nodes'), requestRef, frames)
       IN  requestRef' = f.ref /\ frames' = f.frames
    /\ lastEvent' = [type |-> "analyze", query |-> query]
    /\ UNCHANGED <<advancedTopology, isPanning, lastMousePos, dragRef, mounted>>

\* handleAnalyze after the await: the k-th request in flight resolves
handleAnalyzeResolved(k) ==
    /\ Budget
    /\ mounted
    /\ k \in 1..Len(requests)
    /\ data' = analyzePokemon(requests[k])
    /\ loading' = FALSE
    /\ requests' = [i \in 1..(Len(requests) - 1) |-> IF i < k THEN requests[i] ELSE requests[i + 1]]
    /\ nodes' = NodesAfterData(data, data', nodes)
    /\ transform' = TransformAfterData(data, data', transform)
    /\ LET f == FrameAfter(advancedTopology, Len(nodes), advancedTopology, Len(nodes'), requestRef, frames)
       IN  requestRef' = f.ref /\ frames' = f.frames
    /\ lastEvent' = [type |-> "resolved", query |-> requests[k], from |-> data,
                     nodes |-> nodes, transform |-> transform]
    /\ UNCHANGED <<advancedTopology, isPanning, lastMousePos, dragRef, mounted, issued>>

\* the Simple / Advanced buttons of the topology card
setAdvancedTopology(b) ==
    /\ Budget
    /\ mounted
    /\ TopologyShown(data)
    /\ b /= advancedTopology
    /\ advancedTopology' = b
    /\ LET f == FrameAfter(advancedTopology, Len(nodes), b, Len(nodes), requestRef, frames)
       IN  requestRef' = f.ref /\ frames' = f.frames
    /\ lastEvent' = [type |-> "advanced", on |-> b]
    /\ UNCHANGED <<data, loading, requests, nodes, transform, isPanning, lastMousePos, dragRef, mounted, issued>>

\* the frame callback of a pending request: the setNodes update (dropped by
\* React once the component is unmounted), then the request of the next
\* frame.  The advancedTopology the callback closes over is the current one:
\* a change of it re-creates animate and re-runs the scheduling effect.
animate ==
    /\ Budget
    /\ \E id \in frames :
          LET f == IF advancedTopology
                   THEN RequestFrame(requestRef, frames \ {id})
                   ELSE [ref |-> requestRef, frames |-> frames \ {id}]
          IN  requestRef' = f.ref /\ frames' = f.frames
    /\ nodes' = IF mounted THEN PhysicsStep(nodes) ELSE nodes
    /\ lastEvent' = [type |-> "animate"]
    /\ UNCHANGED <<data, loading, requests, advancedTopology, transform, isPanning, lastMousePos, dragRef, mounted, issued>>

\* the view is switched away from the analyzer: the cleanup of the scheduling
\* effect runs
unmount ==
    /\ Budget
    /\ mounted
    /\ mounted' = FALSE
    /\ frames' = CancelFrame(requestRef, frames)
    /\ lastEvent' = [type |-> "unmount", pending |-> frames]
    /\ UNCHANGED <<data, loading, requests, advancedTopology, nodes, transform, isPanning, lastMousePos, dragRef, requestRef, issued>>

\* a zoom by the factor 1 - deltaY * scaleSensitivity
newScale_Multiplicative(scale, deltaY) == (scale * (1000 - deltaY)) \div 1000

\* newScale = transform.scale + e.deltaY * -scaleSensitivity, in thousandths
newScale(scale, deltaY) == scale - deltaY

\* the clamp without its lower end
clampedScale_NoFloor(scale) == Min2(scale, 4000)

clampedScale(scale) == Min2(Max2(200, scale), 4000)

handleWheel(deltaY) ==
    /\ Budget
    /\ GraphVisible
    /\ transform' = [transform EXCEPT !.scale = clampedScale(newScale(transform.scale, deltaY))]
    /\ lastEvent' = [type |-> "wheel", deltaY |-> deltaY]
    /\ UNCHANGED <<data, loading, requests, advancedTopology, nodes, isPanning, lastMousePos, dragRef, requestRef, frames, mounted, issued>>

\* left button pressed on the canvas
handleSvgMouseDown(p) ==
    /\ Budget
    /\ GraphVisible
    /\ isPanning' = TRUE
    /\ lastMousePos' = p
    /\ lastEvent' = [type |-> "svgdown"]
    /\ UNCHANGED <<data, loading, requests, advancedTopology, nodes, transform, dragRef, requestRef, frames, mounted, issued>>

\* (svgP - transform) / transform.scale
ToLocal(p, t) ==
    [x |-> DivZ((p.x - t.x) * 1000, t.scale), y |-> DivZ((p.y - t.y) * 1000, t.scale)]

DragTo(ns, id, q) ==
    [i \in DOMAIN ns |->
        IF ns[i].id = id
        THEN [ns[i] EXCEPT !.x = Fin(q.x), !.y = Fin(q.y), !.vx = Fin(0), !.vy = Fin(0)]
        ELSE ns[i]]

\* a pointer-move that tests the pan flag before the held node
handleSvgMouseMove_PanFirst(p) ==
    /\ Budget
    /\ GraphVisible
    /\ IF isPanning
       THEN /\ Abs(transform.x + (p.x - lastMousePos.x)) <= PanLimit
            /\ Abs(transform.y + (p.y - lastMousePos.y)) <= PanLimit
            /\ transform' = [transform EXCEPT !.x = @ + (p.x - lastMousePos.x),
                                              !.y = @ + (p.y - lastMousePos.y)]
            /\ lastMousePos' = p
            /\ lastEvent' = [type |-> "panmove"]
            /\ UNCHANGED nodes
       ELSE /\ dragRef /= Null
            /\ nodes' = DragTo(nodes, dragRef.id, ToLocal(p, transform))
            /\ lastEvent' = [type |-> "dragmove", id |-> dragRef.id]
            /\ UNCHANGED <<transform, lastMousePos>>
    /\ UNCHANGED <<data, loading, requests, advancedTopology, isPanning, dragRef, requestRef, frames, mounted, issued>>

handleSvgMouseMove(p) ==
    /\ Budget
    /\ GraphVisible
    /\ IF dragRef /= Null
       THEN /\ nodes' = DragTo(nodes, dragRef.id, ToLocal(p, transform))
            /\ lastEvent' = [type |-> "dragmove", id |-> dragRef.id]
            /\ UNCHANGED <<transform, lastMousePos>>
       ELSE /\ isPanning
            /\ Abs(transform.x + (p.x - lastMousePos.x)) <= PanLimit
            /\ Abs(transform.y + (p.y - lastMousePos.y)) <= PanLimit
            /\ transform' = [transform EXCEPT !.x = @ + (p.x - lastMousePos.x),
                                              !.y = @ + (p.y - lastMousePos.y)]
            /\ lastMousePos' = p
            /\ lastEvent' = [type |-> "panmove"]
            /\ UNCHANGED nodes
    /\ UNCHANGED <<data, loading, requests, advancedTopology, isPanning, dragRef, requestRef, frames, mounted, issued>>

\* a release that leaves the dragging flag set
Release_FlagKept(ns, id) == ns

Release(ns, id) ==
    [i \in DOMAIN ns |-> IF ns[i].id = id THEN [ns[i] EXCEPT !.isDragging = FALSE] ELSE ns[i]]

\* bound to mouseup and to mouseleave of the <svg>
handleSvgMouseUp ==
    /\ Budget
    /\ GraphVisible
    /\ isPanning' = FALSE
    /\ nodes' = IF dragRef /= Null THEN Release(nodes, dragRef.id) ELSE nodes
    /\ dragRef' = Null
    /\ lastEvent' = [type |-> "mouseup", released |-> dragRef]
    /\ UNCHANGED <<data, loading, requests, advancedTopology, transform, lastMousePos, requestRef, frames, mounted, issued>>

Grab(ns, id) ==
    [i \in DOMAIN ns |->
        IF ns[i].id = id
        THEN [ns[i] EXCEPT !.isDragging = TRUE, !.vx = Fin(0), !.vy = Fin(0)]
        ELSE ns[i]]

\* any button pressed on the <g> of a node
handleNodeMouseDown(id) ==
    /\ Budget
    /\ GraphVisible
    /\ \E i \in DOMAIN nodes : nodes[i].id = id
    /\ isPanning' = FALSE
    /\ nodes' = Grab(nodes, id)
    /\ dragRef' = [id |-> id]
    /\ lastEvent' = [type |-> "nodedown", id |-> id]
    /\ UNCHANGED <<data, loading, requests, advancedTopology, transform, lastMousePos, requestRef, frames, mounted, issued>>

\* a reset of the zoom only
ResetView_ZoomOnly ==
    /\ Budget
    /\ GraphVisible
    /\ transform' = [transform EXCEPT !.scale = 1000]
    /\ lastEvent' = [type |-> "reset", from |-> transform]
    /\ UNCHANGED <<data, loading, requests, advancedTopology, nodes, isPanning, lastMousePos, dragRef, requestRef, frames, mounted, issued>>

\* the RESET button
ResetView ==
    /\ Budget
    /\ GraphVisible
    /\ transform' = Identity
    /\ lastEvent' = [type |-> "reset", from |-> transform]
    /\ UNCHANGED <<data, loading, requests, advancedTopology, nodes, isPanning, lastMousePos, dragRef, requestRef, frames, mounted, issued>>

NodeIds == 0..3

\* the state after mount: the first effect adopts cachedData, the [data]
\* effect builds its nodes
GraphMounted(cachedData) ==
    /\ data = cachedData
    /\ loading = FALSE
    /\ requests = <<>>
    /\ issued = "null"
    /\ advancedTopology = FALSE
    /\ nodes = NodesAfterData("null", cachedData, <<>>)
    /\ transform = Identity
    /\ isPanning = FALSE
    /\ lastMousePos = [x |-> 0, y |-> 0]
    /\ dragRef = Null
    /\ requestRef = 0
    /\ frames = {}
    /\ mounted = TRUE
    /\ lastEvent = [type |-> "mount"]
    /\ steps = 0

\* the dashboard is not in use
DashIdle ==
    /\ appGeneration = "legends-za"
    /\ appSeason = "season3"
    /\ metaDataCache = Null
    /\ dashLoading = FALSE
    /\ retryCount = 0
    /\ fetches = <<>>
    /\ effectPending = FALSE
    /\ metaCache = {}
    /\ apiKey = FALSE
    /\ isGlobalOffline = FALSE

\* no call of getEffectiveness under way
ChartIdle ==
    /\ chartAttacker = "None"
    /\ chartDefender = "None"
    /\ effect = [type |-> "pending"]

ScorerIdle ==
    /\ pokemonList = <<>>
    /\ generation = "legends-za"
    /\ scored = [threw |-> FALSE, list |-> <<>>]
    /\ pc = "ready"
    /\ ChartIdle

InitGraph ==
    /\ ScorerIdle
    /\ DashIdle
    /\ \E cachedData \in {"null"} \cup Queries : GraphMounted(cachedData)
    /\ ServiceIdle

NextGraph ==
    \/ \E q \in Queries : handleAnalyze(q) /\ UNCHANGED <<scoreVars, dashVars, serviceVars>>
    \/ \E k \in 1..MaxRequests : handleAnalyzeResolved(k) /\ UNCHANGED <<scoreVars, dashVars, serviceVars>>
    \/ \E b \in BOOLEAN : setAdvancedTopology(b) /\ UNCHANGED <<scoreVars, dashVars, serviceVars>>
    \/ animate /\ UNCHANGED <<scoreVars, dashVars, serviceVars>>
    \/ unmount /\ UNCHANGED <<scoreVars, dashVars, serviceVars>>
    \/ \E d \in WheelDeltas : handleWheel(d) /\ UNCHANGED <<scoreVars, dashVars, serviceVars>>
    \/ \E p \in Pointer : handleSvgMouseDown(p) /\ UNCHANGED <<scoreVars, dashVars, serviceVars>>
    \/ \E p \in Pointer : handleSvgMouseMove(p) /\ UNCHANGED <<scoreVars, dashVars, serviceVars>>
    \/ handleSvgMouseUp /\ UNCHANGED <<scoreVars, dashVars, serviceVars>>
    \/ \E id \in NodeIds : handleNodeMouseDown(id) /\ UNCHANGED <<scoreVars, dashVars, serviceVars>>
    \/ ResetView /\ UNCHANGED <<scoreVars, dashVars, serviceVars>>

SpecGraph == InitGraph /\ [][NextGraph]_vars

(***************************************************************************)
(* Pools                                                                   *)
(***************************************************************************)
MaxPool == 3

Generations == {"legends-za", "gen9"}

Entry(types, hp, attack, defense, spAtk, spDef, speed, aoe, cc) ==
    [types |-> types,
     stats |-> [hp |-> hp, attack |-> attack, defense |-> defense,
                spAtk |-> spAtk, spDef |-> spDef, speed |-> speed],
     isAOE |-> aoe, hasCrowdControl |-> cc, winRate |-> Fin(0)]

\* three entries of FALLBACK_META_DATA and an entry whose stats are all 0
Zygarde == Entry(<<"Dragon", "Ground">>, 216, 100, 121, 91, 95, 85, TRUE, TRUE)

Xerneas == Entry(<<"Fairy">>, 126, 131, 95, 131, 98, 99, TRUE, TRUE)

Aegislash == Entry(<<"Steel", "Ghost">>, 60, 50, 140, 50, 140, 60, FALSE, TRUE)

ZeroStats == Entry(<<"Normal">>, 0, 0, 0, 0, 0, 0, FALSE, FALSE)

\* an entry whose stats object lacks the hp field
NoHp ==
    [types |-> <<"Steel">>,
     stats |-> [attack |-> 90, defense |-> 90, spAtk |-> 60, spDef |-> 60, speed |-> 60],
     isAOE |-> FALSE, hasCrowdControl |-> FALSE, winRate |-> Fin(0)]

\* an entry without a stats object
NoStats ==
    [types |-> <<"Water">>, isAOE |-> FALSE, hasCrowdControl |-> FALSE, winRate |-> Fin(0)]

WellFormedEntries == {Zygarde, Xerneas, Aegislash, ZeroStats}

MalformedEntries == {NoHp, NoStats}

PoolEntries == WellFormedEntries \cup MalformedEntries

Pools == UNION {[1..n -> PoolEntries] : n \in 0..MaxPool}

WellFormed(p) == "stats" \in DOMAIN p /\ StatFields \subseteq DOMAIN p.stats

(***************************************************************************)
(* The scorer applied to an arbitrary pool                                 *)
(***************************************************************************)
InitScore ==
    /\ pokemonList \in Pools
    /\ generation \in Generations
    /\ scored = [threw |-> FALSE, list |-> <<>>]
    /\ pc = "ready"
    /\ ChartIdle
    /\ DashIdle
    /\ GraphMounted("null")
    /\ ServiceIdle

Score ==
    /\ pc = "ready"
    /\ pc' = "done"
    /\ scored' = calculateMetaMatrix(pokemonList, generation)
    /\ UNCHANGED <<pokemonList, generation, chartAttacker, chartDefender, effect>>
    /\ UNCHANGED <<dashVars, graphVars, serviceVars>>

NextScore == Score

SpecScore == InitScore /\ [][NextScore]_vars

(***************************************************************************)
(* Two-unit pools over every choice of types (fixed, equal stat blocks)    *)
(***************************************************************************)
Duelist(types) == Entry(types, 80, 80, 80, 80, 80, 80, FALSE, FALSE)

TypeLists == {<<t>> : t \in PokemonType} \cup {<<t, u>> : t, u \in PokemonType}

InitDuel ==
    /\ \E ta \in PokemonType, tb \in TypeLists :
          pokemonList = <<Duelist(<<ta>>), Duelist(tb)>>
    /\ generation = "legends-za"
    /\ scored = [threw |-> FALSE, list |-> <<>>]
    /\ pc = "ready"
    /\ ChartIdle
    /\ DashIdle
    /\ GraphMounted("null")
    /\ ServiceIdle

NextDuel == Score

SpecDuel == InitDuel /\ [][NextDuel]_vars

(***************************************************************************)
(* getEffectiveness applied to every pair of type strings: the declared    *)
(* types, a string that names no type, and strings that name members of    *)
(* Object.prototype                                                        *)
(***************************************************************************)
TypeStrings == PokemonType \cup {"Shadow"} \cup ObjectPrototype

InitChart ==
    /\ chartAttacker \in TypeStrings
    /\ chartDefender \in TypeStrings
    /\ effect = [type |-> "pending"]
    /\ pokemonList = <<>>
    /\ generation = "legends-za"
    /\ scored = [threw |-> FALSE, list |-> <<>>]
    /\ pc = "ready"
    /\ DashIdle
    /\ GraphMounted("null")
    /\ ServiceIdle

Effectiveness ==
    /\ effect.type = "pending"
    /\ effect' = getEffectiveness(chartAttacker, chartDefender)
    /\ UNCHANGED <<pokemonList, generation, scored, pc, chartAttacker, chartDefender>>
    /\ UNCHANGED <<dashVars, graphVars, serviceVars>>

NextChart == Effectiveness

SpecChart == InitChart /\ [][NextChart]_vars

(***************************************************************************)
(* A session: the meta list is scored (the app opens on the dashboard),    *)
(* then the analyzer is used                                               *)
(***************************************************************************)
SessionPools == {<<>>, <<Zygarde, Xerneas, Aegislash>>}

InitSession ==
    /\ pokemonList \in SessionPools
    /\ generation = "legends-za"
    /\ scored = [threw |-> FALSE, list |-> <<>>]
    /\ pc = "ready"
    /\ ChartIdle
    /\ DashIdle
    /\ \E cachedData \in {"null"} \cup Queries : GraphMounted(cachedData)
    /\ ServiceIdle

NextSession ==
    \/ Score
    \/ pc = "done" /\ NextGraph

SpecSession == InitSession /\ [][NextSession]_vars

(***************************************************************************)
(* MetaDashboard.tsx with the App state it is handed, and getMetaAnalysis  *)
(***************************************************************************)
MaxFetches == 2

MaxRetry == 1

Seasons == {"season2", "season3"}

\* FALLBACK_META_DATA, its first, third and sixth entry
FALLBACK_META_DATA == <<Zygarde, Xerneas, Aegislash>>

\* what JSON.parse(response.text) can be when the backend answers: a list, an
\* empty list, a list with an entry that has no stats object
ParsedLists == {<<Aegislash, Xerneas>>, <<>>, <<Xerneas, NoStats>>}

\* `${generation}-${season}`
CacheKey(gen, season) == [generation |-> gen, season |-> season]

currentKey == CacheKey(appGeneration, appSeason)

\* displayData
displayData ==
    IF metaDataCache /= Null /\ metaDataCache.key = currentKey THEN metaDataCache.data ELSE <<>>

\* calculateMetaMatrix(parsed, generation) for every list and generation of
\* the dashboard, computed once
ScoredLists ==
    [parsed \in ParsedLists \cup {FALLBACK_META_DATA}, gen \in Generations |->
        calculateMetaMatrix(parsed, gen)]

\* calculateMetaMatrix(FALLBACK_META_DATA, generation)
Fallback(gen) == ScoredLists[FALLBACK_META_DATA, gen].list

CachedMeta(key) == {c \in metaCache : c.key = key}

\* getMetaAnalysis up to its first await: the cache, the static data, the
\* client.  localStorage is written together with metaCache and is not kept
\* apart from it.
getMetaAnalysis(gen, season) ==
    IF CachedMeta(CacheKey(gen, season)) /= {}
    THEN [phase |-> "resolved", offline |-> isGlobalOffline,
          result |-> (CHOOSE c \in CachedMeta(CacheKey(gen, season)) : TRUE).data]
    ELSE IF isGlobalOffline \/ (gen = "legends-za" /\ season = "season3")
    THEN [phase |-> "resolved", offline |-> isGlobalOffline, result |-> Fallback(gen)]
    ELSE IF ~apiKey
    THEN [phase |-> "resolved", offline |-> TRUE, result |-> Fallback(gen)]
    ELSE [phase |-> "backend", offline |-> isGlobalOffline, result |-> <<>>]

\* fetchMeta up to its first await, for the props and state of the render
\* that created it
fetchMeta(gen, season, cachedData, retry, fs) ==
    IF /\ cachedData /= Null
       /\ cachedData.key = CacheKey(gen, season)
       /\ Len(cachedData.data) > 0
       /\ retry = 0
    THEN [loading |-> FALSE, fetches |-> fs, offline |-> isGlobalOffline]
    ELSE IF retry > 0
    THEN [loading |-> TRUE, offline |-> isGlobalOffline,
          fetches |-> Append(fs, [generation |-> gen, season |-> season,
                                  phase |-> "timer", result |-> <<>>])]
    ELSE LET g == getMetaAnalysis(gen, season)
         IN  [loading |-> TRUE, offline |-> g.offline,
              fetches |-> Append(fs, [generation |-> gen, season |-> season,
                                      phase |-> g.phase, result |-> g.result])]

\* the state setters and the module variable a call f of fetchMeta wrote
Started(f) ==
    /\ Len(f.fetches) <= MaxFetches
    /\ dashLoading' = f.loading
    /\ fetches' = f.fetches
    /\ isGlobalOffline' = f.offline

\* React runs the effect of the last committed render before it renders
\* again: the state the next render starts from
Flushed ==
    IF effectPending
    THEN fetchMeta(appGeneration, appSeason, metaDataCache, retryCount, fetches)
    ELSE [loading |-> dashLoading, fetches |-> fetches, offline |-> isGlobalOffline]

\* useEffect(..., [fetchMeta, viewMode]) in the 'pokemon' view: fetchMeta is
\* re-created, and the effect runs, after every render of App and after a
\* change of retryCount
fetchEffect ==
    /\ effectPending
    /\ Started(Flushed)
    /\ effectPending' = FALSE
    /\ UNCHANGED <<appGeneration, appSeason, metaDataCache, retryCount, metaCache, apiKey>>

setGeneration(gen) ==
    /\ gen /= appGeneration
    /\ appGeneration' = gen
    /\ Started(Flushed)
    /\ effectPending' = TRUE
    /\ UNCHANGED <<appSeason, metaDataCache, retryCount, metaCache, apiKey>>

setSeason(season) ==
    /\ season /= appSeason
    /\ appSeason' = season
    /\ Started(Flushed)
    /\ effectPending' = TRUE
    /\ UNCHANGED <<appGeneration, metaDataCache, retryCount, metaCache, apiKey>>

\* the Retry Connection button, rendered when nothing is loading and the page is empty
Retry ==
    /\ ~dashLoading
    /\ Len(displayData) = 0
    /\ retryCount < MaxRetry
    /\ retryCount' = retryCount + 1
    /\ Started(Flushed)
    /\ effectPending' = TRUE
    /\ UNCHANGED <<appGeneration, appSeason, metaDataCache, metaCache, apiKey>>

\* the 500 ms timer of a retry ends: getMetaAnalysis is called
TimerFires(k) ==
    /\ k \in DOMAIN fetches
    /\ fetches[k].phase = "timer"
    /\ LET g == getMetaAnalysis(fetches[k].generation, fetches[k].season)
       IN  /\ fetches' = [fetches EXCEPT ![k].phase = g.phase, ![k].result = g.result]
           /\ isGlobalOffline' = g.offline
    /\ UNCHANGED <<appGeneration, appSeason, metaDataCache, dashLoading, retryCount, effectPending, metaCache, apiKey>>

\* generateContentWithRetry resolves with a response that parses to the list
\* parsed: it is scored for the generation of the call and cached; a list
\* calculateMetaMatrix throws on ends in the catch like a failed call
BackendAnswers(k, parsed) ==
    /\ k \in DOMAIN fetches
    /\ fetches[k].phase = "backend"
    /\ LET gen == fetches[k].generation
           key == CacheKey(gen, fetches[k].season)
           calculatedData == ScoredLists[parsed, gen]
       IN  IF calculatedData.threw
           THEN /\ fetches' = [fetches EXCEPT ![k].phase = "resolved", ![k].result = Fallback(gen)]
                /\ UNCHANGED metaCache
           ELSE /\ fetches' = [fetches EXCEPT ![k].phase = "resolved",
                                               ![k].result = calculatedData.list]
                /\ metaCache' = {c \in metaCache : c.key /= key}
                                   \cup {[key |-> key, data |-> calculatedData.list]}
    /\ UNCHANGED <<appGeneration, appSeason, metaDataCache, dashLoading, retryCount, effectPending, apiKey, isGlobalOffline>>

\* generateContentWithRetry rejects: the catch of getMetaAnalysis
BackendFails(k) ==
    /\ k \in DOMAIN fetches
    /\ fetches[k].phase = "backend"
    /\ fetches' = [fetches EXCEPT ![k].phase = "resolved",
                                   ![k].result = Fallback(fetches[k].generation)]
    /\ UNCHANGED <<appGeneration, appSeason, metaDataCache, dashLoading, retryCount, effectPending, metaCache, apiKey, isGlobalOffline>>

\* a sequence without its k-th element
Without(seq, k) == [i \in 1..(Len(seq) - 1) |-> IF i < k THEN seq[i] ELSE seq[i + 1]]

\* the result stored under the key that is current when the fetch resolves
UpdatedCache_LatestKey(fetch) == [key |-> currentKey, data |-> fetch.result]

\* onUpdateCache(currentKey, result) with the key of the render that created
\* this fetchMeta
UpdatedCache(fetch) ==
    [key |-> CacheKey(fetch.generation, fetch.season), data |-> fetch.result]

\* the k-th call of fetchMeta, among those in flight after the pending
\* effect ran, leaves with setLoading(false)
Resolved(f, k) ==
    /\ Len(f.fetches) - 1 <= MaxFetches
    /\ dashLoading' = FALSE
    /\ fetches' = Without(f.fetches, k)
    /\ isGlobalOffline' = f.offline

\* fetchMeta after "await getMetaAnalysis": onUpdateCache and setLoading(false);
\* App renders again
FetchResolves(k) ==
    /\ k \in DOMAIN fetches
    /\ fetches[k].phase = "resolved"
    /\ metaDataCache' = UpdatedCache(fetches[k])
    /\ Resolved(Flushed, k)
    /\ effectPending' = TRUE
    /\ UNCHANGED <<appGeneration, appSeason, retryCount, metaCache, apiKey>>

\* the dashboard as mounted, App in its initial state, before the first effect
InitDash ==
    /\ appGeneration = "legends-za"
    /\ appSeason = "season3"
    /\ metaDataCache = Null
    /\ retryCount = 0
    /\ metaCache = {}
    /\ apiKey \in BOOLEAN
    /\ isGlobalOffline = FALSE
    /\ dashLoading = FALSE
    /\ fetches = <<>>
    /\ effectPending = TRUE
    /\ pokemonList = <<>>
    /\ generation = "legends-za"
    /\ scored = [threw |-> FALSE, list |-> <<>>]
    /\ pc = "ready"
    /\ ChartIdle
    /\ GraphMounted("null")
    /\ ServiceIdle

NextDash ==
    \/ fetchEffect /\ UNCHANGED <<scoreVars, graphVars, serviceVars>>
    \/ \E gen \in Generations : setGeneration(gen) /\ UNCHANGED <<scoreVars, graphVars, serviceVars>>
    \/ \E season \in Seasons : setSeason(season) /\ UNCHANGED <<scoreVars, graphVars, serviceVars>>
    \/ Retry /\ UNCHANGED <<scoreVars, graphVars, serviceVars>>
    \/ \E k \in 1..MaxFetches : TimerFires(k) /\ UNCHANGED <<scoreVars, graphVars, serviceVars>>
    \/ \E k \in 1..MaxFetches, parsed \in ParsedLists : BackendAnswers(k, parsed) /\ UNCHANGED <<scoreVars, graphVars, serviceVars>>
    \/ \E k \in 1..MaxFetches : BackendFails(k) /\ UNCHANGED <<scoreVars, graphVars, serviceVars>>
    \/ \E k \in 1..MaxFetches : FetchResolves(k) /\ UNCHANGED <<scoreVars, graphVars, serviceVars>>

SpecDash == InitDash /\ [][NextDash]_vars

(***************************************************************************)
(* Claims about the scorer                                                 *)
(***************************************************************************)
ValidWinRate(w) == ~w.nan /\ 450 <= w.v /\ w.v <= 780

\* C1: every winRate calculateMetaMatrix returns, for whatever pool it is
\* handed, lies in the band [45, 78].
C1_WinRateInBand ==
    pc = "done" => \A i \in DOMAIN scored.list : ValidWinRate(scored.list[i].winRate)

\* C2: a pool with a malformed entry (stat fields missing) neither makes the
\* scorer throw nor spoils the batch: every well-formed entry of the pool is
\* returned with a valid win rate.
C2_MalformedFilteredOut ==
    pc = "done" =>
        /\ ~scored.threw
        /\ \A i \in DOMAIN pokemonList :
              WellFormed(pokemonList[i]) =>
                 \E k \in DOMAIN scored.list :
                    /\ scored.list[k] = WithWinRate(pokemonList[i], scored.list[k].winRate)
                    /\ ValidWinRate(scored.list[k].winRate)

\* A's sole type hits some type of B for 2x and no type of B resists it
SoleTypeDoublyEffective(A, B) ==
    /\ Len(A.types) = 1
    /\ \E k \in DOMAIN B.types : getEffectiveness(A.types[1], B.types[k]).v = 4
    /\ \A k \in DOMAIN B.types : getEffectiveness(A.types[1], B.types[k]).v >= 2

\* no type of B hits A's sole type for 2x
NotHitBackDoubly(A, B) ==
    \A k \in DOMAIN B.types : getEffectiveness(B.types[k], A.types[1]).v < 4

\* C4 as stated: in a pool <<A, B>> where A's sole type is doubly effective
\* against B and B has no resisting type, A's matchup score is > 0 and B's < 0.
C4_DoublyEffectiveWins ==
    (pc = "done" /\ Len(pokemonList) = 2
       /\ SoleTypeDoublyEffective(pokemonList[1], pokemonList[2])) =>
        /\ matchupScores(pokemonList)[1] > 0
        /\ matchupScores(pokemonList)[2] < 0

\* C4 amended: the same, provided no type of B is doubly effective against
\* A's type in return.
C4_DoublyEffectiveWinsUnanswered ==
    (pc = "done" /\ Len(pokemonList) = 2
       /\ SoleTypeDoublyEffective(pokemonList[1], pokemonList[2])
       /\ NotHitBackDoubly(pokemonList[1], pokemonList[2])) =>
        /\ matchupScores(pokemonList)[1] > 0
        /\ matchupScores(pokemonList)[2] < 0

C4_Witness ==
    /\ pc = "done" /\ Len(pokemonList) = 2
    /\ SoleTypeDoublyEffective(pokemonList[1], pokemonList[2])
    /\ NotHitBackDoubly(pokemonList[1], pokemonList[2])
    /\ Len(pokemonList[2].types) = 2
    /\ matchupScores(pokemonList)[1] = 4

(***************************************************************************)
(* Claims about the force-directed graph                                   *)
(***************************************************************************)
FiniteNode(n) == ~n.x.nan /\ ~n.y.nan /\ ~n.vx.nan /\ ~n.vy.nan

\* C3: whatever the interleaving of ticks and drags, also after a node was
\* released exactly on the anchor or on another node, every node position and
\* velocity is a finite number (no NaN reaches the coordinates).
C3_CoordinatesFinite == \A i \in DOMAIN nodes : FiniteNode(nodes[i])

\* C5: a node becomes Dragging only by a pointer-down on that node, with its
\* velocity zeroed, and after a pointer-up (or pointer-leave) no node is
\* Dragging any more.
C5_DragStateMachine ==
    [][/\ \A i \in (DOMAIN nodes) \cap (DOMAIN nodes') :
             (~nodes[i].isDragging /\ nodes'[i].isDragging /\ data' = data) =>
                 /\ lastEvent'.type = "nodedown"
                 /\ lastEvent'.id = nodes[i].id
                 /\ nodes'[i].vx = Fin(0) /\ nodes'[i].vy = Fin(0)
       /\ lastEvent'.type = "mouseup" =>
             \A i \in DOMAIN nodes' : ~nodes'[i].isDragging]_vars

\* the node the pointer-up of the last event released
Released(ns, ev) == {i \in DOMAIN ns : ev.released /= Null /\ ns[i].id = ev.released.id}

C7_ScaleClamped == 200 <= transform.scale /\ transform.scale <= 4000

\* a scroll was cut off at the lower clamp
C7_Witness ==
    /\ lastEvent.type = "wheel"
    /\ lastEvent.deltaY = 3000
    /\ transform.scale = 200

\* C8 as stated: the unclamped scale a scroll computes is the current scale
\* times a factor that depends on the delta only (the factor the same delta
\* yields at scale 1).
C8_ScrollMultiplicative ==
    [][lastEvent'.type = "wheel" =>
          newScale(transform.scale, lastEvent'.deltaY) * 1000
              = transform.scale * newScale(1000, lastEvent'.deltaY)]_vars

\* C8 amended: a scroll adds -0.001 * deltaY to the scale (the difference
\* new - old depends on the delta only) and the sum is clamped to [0.2, 4].
C8_ScrollAdditive ==
    [][lastEvent'.type = "wheel" =>
          /\ transform'.scale = Min2(Max2(200, transform.scale - lastEvent'.deltaY), 4000)
          /\ transform'.x = transform.x /\ transform'.y = transform.y]_vars

\* a scroll from 0.2 by -3000 gave 3.2, not clamped
C8_Witness ==
    /\ lastEvent.type = "wheel"
    /\ lastEvent.deltaY = -3000
    /\ transform.scale = 3200

\* C9: after RESET the transform is exactly {x: 0, y: 0, scale: 1}.
C9_ResetRestoresIdentity ==
    lastEvent.type = "reset" => transform = [x |-> 0, y |-> 0, scale |-> 1000]

\* RESET pressed on a view zoomed out to the clamp 0.2 and panned
C9_Witness ==
    /\ lastEvent.type = "reset"
    /\ lastEvent.from.scale = 200
    /\ lastEvent.from.x /= 0
    /\ transform = [x |-> 0, y |-> 0, scale |-> 1000]

\* nodes freshly laid out for analysis d: one per matchup, on the circle of
\* radius 120 around the anchor, at rest, not dragging
FreshLayout(ns, d) ==
    /\ Len(ns) = Len(Network(d))
    /\ \A i \in DOMAIN ns :
          /\ ns[i].id = i - 1
          /\ ns[i].matchup = Network(d)[i]
          /\ ~ns[i].x.nan /\ ~ns[i].y.nan
          /\ Hypot(ns[i].x.v - centerNodePos.x, ns[i].y.v - centerNodePos.y) = initialRadius
          /\ ns[i].vx = Fin(0) /\ ns[i].vy = Fin(0)
          /\ ~ns[i].isDragging

\* C10 as stated: whenever the displayed analysis is replaced, the nodes are
\* re-created from the new matchup list and the transform is the identity.
C10_ReloadResets ==
    (lastEvent.type = "resolved" /\ lastEvent.from /= data) =>
        FreshLayout(nodes, data) /\ transform = Identity

\* C10 amended: that holds when the new analysis carries a matchupNetwork
\* list (possibly empty); when it carries none, the nodes and the transform
\* of the previous analysis are kept as they were.
C10_ReloadResetsWithNetwork ==
    (lastEvent.type = "resolved" /\ lastEvent.from /= data) =>
        IF HasNetwork(data)
        THEN FreshLayout(nodes, data) /\ transform = Identity
        ELSE nodes = lastEvent.nodes /\ transform = lastEvent.transform

\* Xerneas replaced Zygarde, whose view had been zoomed and whose first node
\* had been moved
C10_Witness ==
    /\ lastEvent.type = "resolved"
    /\ lastEvent.from /= data
    /\ data = "Xerneas"
    /\ Len(lastEvent.nodes) = 2
    /\ lastEvent.transform.scale /= 1000
    /\ Len(nodes) = 1
    /\ transform = Identity

(***************************************************************************)
(* Claims about the frame loop                                             *)
(***************************************************************************)
\* C11: while the topology graph is hidden (advanced view off, or no matchup
\* network displayed) no frame callback is pending, and a tick only ever runs
\* while the graph is shown.
C11_NoFrameWhileHidden ==
    [][/\ ~GraphVisible' => ~framePending'
       /\ lastEvent'.type = "animate" => GraphVisible]_vars

\* C12: at most one frame request is pending at any time, it is the one
\* requestRef names, and once the component is unmounted none is pending, so
\* no frame callback runs after teardown.
C12_OneFrameCancelledOnTeardown ==
    /\ Cardinality(frames) <= 1
    /\ frames \subseteq {requestRef}
    /\ ~mounted => (frames = {} /\ lastEvent.type = "unmount")

\* the analyzer was unmounted while the request of a later frame (the loop had
\* ticked at least once) was pending
C12_Witness ==
    /\ ~mounted
    /\ lastEvent.type = "unmount"
    /\ lastEvent.pending = {requestRef}
    /\ requestRef >= 2
    /\ frames = {}

(***************************************************************************)
(* Claims about the type chart                                             *)
(***************************************************************************)
\* the pair is an entry of the table
Listed(a, d) == a \in DOMAIN typeChartData /\ d \in DOMAIN typeChartData[a]

\* C13: for every pair of type strings getEffectiveness returns a number
\* among 0, 0.5, 1, 2, and it returns 1 when either argument is None and
\* when the pair is not listed in the table.
C13_EffectivenessTotal ==
    effect.type /= "pending" =>
        /\ effect.type = "number"
        /\ effect.v \in {0, 1, 2, 4}
        /\ (chartAttacker = "None" \/ chartDefender = "None"
              \/ ~Listed(chartAttacker, chartDefender)) => effect.v = 2

(***************************************************************************)
(* Further claims about the scorer                                         *)
(***************************************************************************)
\* raw of entry i is at least raw of entry j (one pool: equal denominators)
RawGeq(list, gen, i, j) ==
    /\ ~raw(list, gen, i).nan /\ ~raw(list, gen, j).nan
    /\ raw(list, gen, i).num >= raw(list, gen, j).num

\* C14: within one scored pool, raw_i >= raw_j implies winRate_i >= winRate_j.
C14_WinRateMonotonic ==
    (pc = "done" /\ ~scored.threw) =>
        \A i, j \in DOMAIN scored.list :
            RawGeq(pokemonList, generation, i, j) =>
                /\ ~scored.list[i].winRate.nan /\ ~scored.list[j].winRate.nan
                /\ scored.list[i].winRate.v >= scored.list[j].winRate.v

\* a pool of three entries with three different raw scores and three
\* different win rates in the same order
C14_Witness ==
    /\ pc = "done" /\ ~scored.threw /\ Len(scored.list) = 3
    /\ RawGeq(pokemonList, generation, 1, 2) /\ ~RawGeq(pokemonList, generation, 2, 1)
    /\ RawGeq(pokemonList, generation, 2, 3) /\ ~RawGeq(pokemonList, generation, 3, 2)
    /\ scored.list[1].winRate.v > scored.list[2].winRate.v
    /\ scored.list[2].winRate.v > scored.list[3].winRate.v

(***************************************************************************)
(* Claims about the dashboard                                              *)
(***************************************************************************)
\* the lists getMetaAnalysis can hand out for generation gen
ScoredFor(gen) ==
    {Fallback(gen)} \cup
    {ScoredLists[parsed, gen].list : parsed \in {l \in ParsedLists : ~ScoredLists[l, gen].threw}}

\* C15: whatever the order of generation and season changes and of the
\* resolutions of overlapping fetches, the list the dashboard displays was
\* scored by calculateMetaMatrix for the generation that is current.
C15_DisplayedScoredForCurrentRuleset == displayData \in ScoredFor(appGeneration)

\* the dashboard shows a list scored for gen9 after a fetch for legends-za,
\* whose win rates differ, resolved while it was current
C15_Witness ==
    /\ appGeneration = "gen9"
    /\ Len(displayData) = 3
    /\ displayData = Fallback("gen9")
    /\ displayData /= Fallback("legends-za")
    /\ fetches = <<>>

(***************************************************************************)
(* Claims about empty input                                                *)
(***************************************************************************)
\* C16: calculateMetaMatrix returns an empty list for an empty pool without
\* throwing (a missing pool takes the same early return), and while the
\* displayed analysis carries an empty matchup list there are no nodes and
\* no frame callback is pending.
C16_EmptyInputEmptyResult ==
    /\ (pc = "done" /\ Len(pokemonList) = 0) => scored = [threw |-> FALSE, list |-> <<>>]
    /\ (HasNetwork(data) /\ Len(Network(data)) = 0) => (nodes = <<>> /\ frames = {})

\* the empty pool was scored, and an analysis with an empty matchup list
\* replaced one whose two nodes were being animated
C16_Witness ==
    /\ pc = "done" /\ Len(pokemonList) = 0 /\ scored.list = <<>>
    /\ lastEvent.type = "resolved"
    /\ data = "Ditto"
    /\ Len(lastEvent.nodes) = 2
    /\ advancedTopology
    /\ nodes = <<>>
    /\ frames = {}

(***************************************************************************)
(* Claims about the list the scorer returns                                *)
(***************************************************************************)
\* C17: a call of calculateMetaMatrix that returns leaves the list it was
\* given as it was and returns a list of the same length and order in which
\* every entry has the fields of the input entry, equal but for winRate.
C17_SameListButWinRate ==
    [][(pc = "ready" /\ pc' = "done" /\ ~scored'.threw) =>
          /\ pokemonList' = pokemonList
          /\ Len(scored'.list) = Len(pokemonList)
          /\ \A i \in DOMAIN pokemonList :
                /\ DOMAIN scored'.list[i] = (DOMAIN pokemonList[i]) \cup {"winRate"}
                /\ \A f \in (DOMAIN pokemonList[i]) \ {"winRate"} :
                      scored'.list[i][f] = pokemonList[i][f]]_vars

\* three different entries were scored, each got a win rate of its own
C17_Witness ==
    /\ pc = "done" /\ ~scored.threw
    /\ pokemonList = <<Aegislash, Zygarde, Xerneas>>
    /\ \A i \in 1..3 : scored.list[i].winRate /= pokemonList[i].winRate
    /\ scored.list[1].types = <<"Steel", "Ghost">>
    /\ scored.list[2].stats.hp = 216

(***************************************************************************)
(* Claims about panning                                                    *)
(***************************************************************************)
PointerMoved == lastEvent'.type \in {"panmove", "dragmove"} /\ steps' = steps + 1

Panned ==
    /\ lastEvent'.type = "panmove"
    /\ transform'.x = transform.x + (lastMousePos'.x - lastMousePos.x)
    /\ transform'.y = transform.y + (lastMousePos'.y - lastMousePos.y)
    /\ transform'.scale = transform.scale
    /\ nodes' = nodes

\* C18 as stated: the pointer-move that follows a left press on empty canvas
\* pans: it adds the pointer delta to the translation and leaves the scale
\* and the nodes as they were.
C18_CanvasGesturePans ==
    [][(lastEvent.type = "svgdown" /\ PointerMoved) => Panned]_vars

\* C18, amended: the pan flag is raised only by a left press on the canvas
\* and a press on a node lowers it; a pointer-move while a node is held
\* never changes the view transform, whatever the pan flag says; a
\* pointer-move while no node is held happens only with the pan flag up and
\* adds the pointer delta to the translation, leaving the scale and the
\* nodes as they were.
C18_PanUnlessNodeHeld ==
    [][/\ (isPanning' /\ ~isPanning) => lastEvent'.type = "svgdown"
       /\ (lastEvent'.type = "nodedown" /\ steps' = steps + 1) => (~isPanning' /\ dragRef' /= Null /\ transform' = transform)
       /\ PointerMoved =>
             IF dragRef /= Null
             THEN lastEvent'.type = "dragmove" /\ transform' = transform
             ELSE isPanning /\ Panned]_vars

\* a canvas drag moved the view by the pointer delta; the nodes of the graph stayed
C18_Witness ==
    /\ lastEvent.type = "panmove"
    /\ isPanning /\ dragRef = Null
    /\ transform = [x |-> 1200, y |-> 0, scale |-> 1000]
    /\ lastMousePos = [x |-> 4200, y |-> 2000]
    /\ Len(nodes) = 2

(***************************************************************************)
(* The mesh between the matchup nodes                                      *)
(***************************************************************************)
\* t.charAt(0).toUpperCase() + t.slice(1).toLowerCase(), on the spellings in use
Capitalize(t) ==
    CASE t \in {"fairy", "FAIRY"} -> "Fairy"
      [] t \in {"fire", "FIRE"} -> "Fire"
      [] t \in {"dragon", "DRAGON"} -> "Dragon"
      [] OTHER -> t

\* typesA / typesB
meshTypes(node) ==
    [k \in DOMAIN node.matchup.opponentTypes |-> Capitalize(node.matchup.opponentTypes[k])]

\* "let multAtoB = 0; typesA.forEach(atk => typesB.forEach(def =>
\*  multAtoB = Math.max(multAtoB, getEffectiveness(atk, def))))", in halves
multAtoB(typesA, typesB) ==
    LET vals == {0} \cup {getEffectiveness(typesA[a], typesB[d]).v : a \in DOMAIN typesA, d \in DOMAIN typesB}
    IN  CHOOSE m \in vals : \A v \in vals : v <= m

\* multAtoB > 1 || multBtoA > 1
meshLine(nodeA, nodeB) ==
    \/ multAtoB(meshTypes(nodeA), meshTypes(nodeB)) > 2
    \/ multAtoB(meshTypes(nodeB), meshTypes(nodeA)) > 2

\* multAtoB >= 2 || multBtoA >= 2
isStrong(nodeA, nodeB) ==
    \/ multAtoB(meshTypes(nodeA), meshTypes(nodeB)) >= 4
    \/ multAtoB(meshTypes(nodeB), meshTypes(nodeA)) >= 4

\* the pairs the mesh visits: "if (i >= j) return null"
meshPairs(ns) == {<<i, j>> \in (DOMAIN ns) \X (DOMAIN ns) : i < j}

\* C19: for every pair of matchup nodes of the drawn graph the multiplier of
\* the mesh is, in both directions, the offensive multiplier of the scorer
\* (BestMult, in quarters) of the nodes' types; a line is drawn exactly when
\* one direction of that multiplier exceeds 1 and it is strong exactly when
\* one direction reaches 2.
C19_MeshUsesScorerMultiplier ==
    GraphVisible =>
      \A pr \in meshPairs(nodes) :
        LET nodeA == nodes[pr[1]]
            nodeB == nodes[pr[2]]
            typesA == meshTypes(nodeA)
            typesB == meshTypes(nodeB)
        IN  /\ 2 * multAtoB(typesA, typesB) = BestMult(typesA, typesB)
            /\ 2 * multAtoB(typesB, typesA) = BestMult(typesB, typesA)
            /\ meshLine(nodeA, nodeB) <=> (BestMult(typesA, typesB) > 4 \/ BestMult(typesB, typesA) > 4)
            /\ isStrong(nodeA, nodeB) <=> (BestMult(typesA, typesB) >= 8 \/ BestMult(typesB, typesA) >= 8)

(***************************************************************************)
(* Claim about the matchup score                                           *)
(***************************************************************************)
\* C20: in a call of the scorer that returns, the matchup score of every
\* entry i is the sum, over the indices j other than i, of best(i, j) -
\* best(j, i), where best(a, b) is the largest, over the types of a, of the
\* product of getEffectiveness through all the types of b (in quarters).
C20_MatchupScoreIsPairwiseSum ==
    (pc = "done" /\ ~scored.threw) =>
      LET product(t, b) ==
              IF Len(b) = 1 THEN 2 * getEffectiveness(t, b[1]).v
              ELSE getEffectiveness(t, b[1]).v * getEffectiveness(t, b[2]).v
          best(a, b) ==
              LET ps == {product(a.types[k], b.types) : k \in DOMAIN a.types}
              IN  CHOOSE m \in ps : \A q \in ps : q <= m
          term(i, j) == best(pokemonList[i], pokemonList[j]) - best(pokemonList[j], pokemonList[i])
          total(i) ==
              LET sum[S \in SUBSET (DOMAIN pokemonList)] ==
                      IF S = {} THEN 0
                      ELSE LET j == CHOOSE k \in S : TRUE
                           IN  term(i, j) + sum[S \ {j}]
              IN  sum[(DOMAIN pokemonList) \ {i}]
      IN  \A i \in DOMAIN pokemonList : matchupScores(pokemonList)[i] = total(i)

\* three entries of different types were scored: the middle one gains
\* against one opponent and loses against the other, and the scores differ
C20_Witness ==
    /\ pc = "done" /\ ~scored.threw
    /\ pokemonList = <<Zygarde, Xerneas, Aegislash>>
    /\ Contribution(pokemonList, 2, 1) > 0
    /\ Contribution(pokemonList, 2, 3) < 0
    /\ matchupScores(pokemonList)[2] /= matchupScores(pokemonList)[1]
    /\ matchupScores(pokemonList)[2] /= 0

(***************************************************************************)
(* Claims about the composite score                                        *)
(***************************************************************************)
\* C21: in a call of the scorer that returns, the winRate of every entry is
\* 45 + 33 * raw rounded to one decimal (NaN when the normalised stat score
\* is NaN), where raw = 0.35 * nStat + 0.45 * nMatch + 0.20 * mech and mech
\* is 0.5, plus 0.3 for isAOE, plus 0.2 for hasCrowdControl.  With the
\* fractions a = nStat and c = nMatch and mech in tenths, 10 * 33 * raw is
\* N / D below and the winRate w in tenths is the integer nearest to
\* 450 + N / D.
C21_WinRateIsCompositeRounded ==
    (pc = "done" /\ ~scored.threw) =>
      \A i \in DOMAIN pokemonList :
        LET p == pokemonList[i]
            a == nStat(pokemonList, generation, i)
            c == nMatch(pokemonList, i)
            m == 5 + (IF p.isAOE THEN 3 ELSE 0) + (IF p.hasCrowdControl THEN 2 ELSE 0)
            N == 33 * (35 * a.num * c.den + 45 * c.num * a.den + 2 * m * a.den * c.den)
            D == 10 * a.den * c.den
            w == scored.list[i].winRate
        IN  IF a.nan THEN w.nan
            ELSE /\ ~w.nan
                 /\ (2 * (w.v - 450) - 1) * D <= 2 * N
                 /\ 2 * N < (2 * (w.v - 450) + 1) * D

\* a pool was scored whose entries differ in both mechanics flags and in
\* their stat and matchup scores
C21_Witness ==
    /\ pc = "done" /\ ~scored.threw
    /\ pokemonList = <<Zygarde, Aegislash, ZeroStats>>
    /\ mech(pokemonList[1]) = 10 /\ mech(pokemonList[2]) = 7 /\ mech(pokemonList[3]) = 5
    /\ \A i \in 1..3 : ~scored.list[i].winRate.nan
    /\ scored.list[1].winRate.v > scored.list[2].winRate.v
    /\ scored.list[2].winRate.v > scored.list[3].winRate.v

(***************************************************************************)
(* Claims about the stat score                                             *)
(***************************************************************************)
\* C22: in a call of the scorer that returns, the stat score of an entry
\* with the six stats is 2.0 * hp + 1.3 * max(attack, spAtk) + 1.0 *
\* (defense + spDef) + speedWeight * speed (in tenths), with speedWeight 0
\* under legends-za and 0.4 under every other ruleset; and under legends-za
\* every pool that differs from the scored one only in the values of speed
\* gets the same win rates, entry by entry.
C22_SpeedIgnoredUnderLegendsZA ==
    (pc = "done" /\ ~scored.threw) =>
      LET w == IF generation = "legends-za" THEN 0 ELSE 4
          speeds == {0, 60, 150}
          respeed(sp) == [i \in DOMAIN pokemonList |-> [pokemonList[i] EXCEPT !.stats.speed = sp[i]]]
          rates(l) == [i \in DOMAIN l |-> l[i].winRate]
      IN  /\ \A i \in DOMAIN pokemonList :
                LET st == pokemonList[i].stats
                IN  StatFields \subseteq DOMAIN st =>
                      statScores(pokemonList, generation)[i] =
                        Fin(20 * st.hp
                            + 13 * (IF st.attack >= st.spAtk THEN st.attack ELSE st.spAtk)
                            + 10 * (st.defense + st.spDef) + w * st.speed)
          /\ generation = "legends-za" =>
                \A sp \in [DOMAIN pokemonList -> speeds] :
                    rates(calculateMetaMatrix(respeed(sp), generation).list) = rates(scored.list)

\* a pool was scored under legends-za that a change of the speed values
\* alone would score differently under gen9
C22_Witness ==
    /\ pc = "done" /\ ~scored.threw
    /\ generation = "legends-za"
    /\ pokemonList = <<Zygarde, Xerneas, Aegislash>>
    /\ LET slower == [pokemonList EXCEPT ![2].stats.speed = 0]
       IN  /\ slower /= pokemonList
           /\ calculateMetaMatrix(slower, "gen9").list[2].winRate
                 /= calculateMetaMatrix(pokemonList, "gen9").list[2].winRate
           /\ calculateMetaMatrix(slower, "legends-za").list[2].winRate = scored.list[2].winRate

(***************************************************************************)
(* Claims about the normalisation                                          *)
(***************************************************************************)
\* C23: in a call of the scorer that returns, the normalised stat score
\* and the normalised matchup score of every entry are numbers in [0, 1]
\* (never NaN, never a division by 0), and when all stat scores, or all
\* matchup scores, of the pool are equal the divisor is 1 and the
\* normalised value of every entry is 0.
C23_NormalisedInUnitInterval ==
    (pc = "done" /\ ~scored.threw) =>
      \A i \in DOMAIN pokemonList :
        LET a == nStat(pokemonList, generation, i)
            c == nMatch(pokemonList, i)
            ss == statScores(pokemonList, generation)
            ms == matchupScores(pokemonList)
        IN  /\ ~a.nan
            /\ a.den > 0 /\ 0 <= a.num /\ a.num <= a.den
            /\ c.den > 0 /\ 0 <= c.num /\ c.num <= c.den
            /\ (\A j \in DOMAIN ss : ss[j] = ss[i]) => (a.num = 0 /\ a.den = 10)
            /\ (\A j \in DOMAIN ms : ms[j] = ms[i]) => (c.num = 0 /\ c.den = 4)

(***************************************************************************)
(* Claims about the physics tick                                           *)
(***************************************************************************)
Ticked == lastEvent'.type = "animate" /\ steps' = steps + 1

\* C24: a physics tick leaves the number of nodes and every node's id,
\* matchup descriptor and dragging flag as they were, and leaves a node
\* whose dragging flag is set where it was, with the velocity it had; a
\* node whose flag is set has velocity zero; and a step that moves a node
\* whose flag is set before and after it is a pointer-move.
C24_TickSparesDraggedNodes ==
    /\ [](\A i \in DOMAIN nodes : nodes[i].isDragging => (nodes[i].vx = Fin(0) /\ nodes[i].vy = Fin(0)))
    /\ [][/\ Ticked =>
               /\ Len(nodes') = Len(nodes)
               /\ \A i \in DOMAIN nodes :
                     /\ nodes'[i].id = nodes[i].id
                     /\ nodes'[i].matchup = nodes[i].matchup
                     /\ nodes'[i].isDragging = nodes[i].isDragging
                     /\ nodes[i].isDragging => nodes'[i] = nodes[i]
          /\ \A i \in DOMAIN nodes :
                (/\ i \in DOMAIN nodes'
                 /\ nodes[i].isDragging /\ nodes'[i].isDragging
                 /\ (nodes'[i].x /= nodes[i].x \/ nodes'[i].y /= nodes[i].y))
                => lastEvent'.type = "dragmove"]_vars

\* a tick has just run that moved a free node and left a held node, which a
\* pointer-move had put elsewhere than its initial place, where it was
C24_Witness ==
    /\ lastEvent.type = "animate"
    /\ mounted /\ Len(nodes) = 2
    /\ nodes[1].isDragging /\ ~nodes[2].isDragging
    /\ nodes[1].x /= InitialNodes(data)[1].x
    /\ nodes[2].x /= InitialNodes(data)[2].x
    /\ nodes[1].vx = Fin(0)

\* C25: after a physics tick every node that is not being dragged has
\* finite coordinates inside the box x in [-500, 1100], y in [-500, 900]
\* and a finite velocity of at most MAX_SPEED.
C25_TickKeepsNodesInBox ==
    lastEvent.type = "animate" =>
      \A i \in DOMAIN nodes :
        ~nodes[i].isDragging =>
          /\ ~nodes[i].x.nan /\ ~nodes[i].y.nan /\ ~nodes[i].vx.nan /\ ~nodes[i].vy.nan
          /\ BoxMinX <= nodes[i].x.v /\ nodes[i].x.v <= BoxMaxX
          /\ BoxMinY <= nodes[i].y.v /\ nodes[i].y.v <= BoxMaxY
          /\ nodes[i].vx.v * nodes[i].vx.v + nodes[i].vy.v * nodes[i].vy.v <= MAX_SPEED * MAX_SPEED

(***************************************************************************)
(* The dashboard under fair scheduling                                     *)
(***************************************************************************)
\* React runs a pending effect, a timer fires, the backend answers or
\* fails, and a resolved promise runs its continuation; the user owes nothing
DashFairness ==
    /\ WF_vars(fetchEffect /\ UNCHANGED <<scoreVars, graphVars, serviceVars>>)
    /\ WF_vars(\E k \in 1..MaxFetches : TimerFires(k) /\ UNCHANGED <<scoreVars, graphVars, serviceVars>>)
    /\ WF_vars(\E k \in 1..MaxFetches :
                  \/ \E parsed \in ParsedLists : BackendAnswers(k, parsed) /\ UNCHANGED <<scoreVars, graphVars, serviceVars>>
                  \/ BackendFails(k) /\ UNCHANGED <<scoreVars, graphVars, serviceVars>>)
    /\ WF_vars(\E k \in 1..MaxFetches : FetchResolves(k) /\ UNCHANGED <<scoreVars, graphVars, serviceVars>>)

SpecDashLive == InitDash /\ [][NextDash]_vars /\ DashFairness

\* nothing is loading, no call of fetchMeta is in flight and no effect is due
Quiescent == ~dashLoading /\ fetches = <<>> /\ ~effectPending

\* C26: once generation and season stay fixed, the dashboard reaches, and
\* stays in, a state where loading is false, no fetch is in flight and no
\* effect is due, so that getMetaAnalysis is not called again.
C26_FetchQuiesces ==
    (<>[][appGeneration' = appGeneration /\ appSeason' = appSeason]_vars) => <>[]Quiescent

(***************************************************************************)
(* Overlapping analysis requests                                           *)
(***************************************************************************)
\* C27: loading is false only when no request is outstanding, and once every
\* request has resolved the analysis displayed is the result of the request
\* issued last.
C27_LatestRequestWins ==
    mounted =>
        /\ (~loading => requests = <<>>)
        /\ (requests = <<>> /\ issued /= "null" => data = analyzePokemon(issued))

(***************************************************************************)
(* Claim about the sum of the matchup scores                               *)
(***************************************************************************)
\* C28: in a call of the scorer that computes matchup scores, what j adds to
\* i's score is the negation of what i adds to j's, the scores of all
\* entries sum to 0, the largest is >= 0 and the smallest is <= 0.
C28_MatchupScoresAreZeroSum ==
    (pc = "done" /\ ~scored.threw /\ Len(pokemonList) > 0) =>
      LET ms == matchupScores(pokemonList)
          sum[n \in 0..Len(pokemonList)] == IF n = 0 THEN 0 ELSE sum[n - 1] + ms[n]
      IN  /\ \A i, j \in DOMAIN pokemonList :
                i /= j => Contribution(pokemonList, i, j) = 0 - Contribution(pokemonList, j, i)
          /\ sum[Len(pokemonList)] = 0
          /\ SeqMax(ms) >= 0
          /\ SeqMin(ms) <= 0

\* three entries of different types were scored, one with a score above 0
\* and one with a score below 0
C28_Witness ==
    /\ pc = "done" /\ ~scored.threw
    /\ Len(pokemonList) = 3
    /\ \E i, j \in DOMAIN pokemonList :
          /\ matchupScores(pokemonList)[i] > 0
          /\ matchupScores(pokemonList)[j] < 0
          /\ Contribution(pokemonList, i, j) /= 0

(***************************************************************************)
(* generateContentWithRetry                                                *)
(***************************************************************************)
\* the largest maxRetries an invocation is given
RetryLimit == 3

\* what client.models.generateContent can reject with: an error with
\* status 429, an error whose message contains '429', an error with another
\* message, an error with neither status nor message
Errors == {"status429", "message429", "other", "bare"}

\* error.status === 429 || error.message?.includes('429')
isRateLimit(error) == error \in {"status429", "message429"}

\* generateContentWithRetry up to its first await: "No Client" is thrown
\* for a null client, else the first call of generateContent is made
generateContentWithRetry(client, maxRetries) ==
    IF ~client
    THEN [phase |-> "thrown", client |-> client, maxRetries |-> maxRetries, retries |-> 0,
          calls |-> 0, delay |-> 0, errors |-> <<>>, thrown |-> "No Client"]
    ELSE [phase |-> "calling", client |-> client, maxRetries |-> maxRetries, retries |-> 0,
          calls |-> 1, delay |-> 0, errors |-> <<>>, thrown |-> "none"]

\* the try: the awaited call resolves and its response is returned
Responds(r) == [r EXCEPT !.phase = "returned"]

\* the catch with every error retried while retries are left
Rejects_AnyError(r, error) ==
    IF r.retries < r.maxRetries
    THEN [r EXCEPT !.phase = "backoff", !.delay = 3000 * (r.retries + 1),
                   !.errors = Append(r.errors, error)]
    ELSE [r EXCEPT !.phase = "thrown", !.thrown = error, !.errors = Append(r.errors, error)]

\* the catch: a rate-limit error with retries left starts the timer of
\* 3000 * (retries + 1) ms, any other error is thrown
Rejects(r, error) ==
    IF isRateLimit(error) /\ r.retries < r.maxRetries
    THEN [r EXCEPT !.phase = "backoff", !.delay = 3000 * (r.retries + 1),
                   !.errors = Append(r.errors, error)]
    ELSE [r EXCEPT !.phase = "thrown", !.thrown = error, !.errors = Append(r.errors, error)]

\* the timer ends: "retries++; continue" and the next call of generateContent
TimerEnds(r) ==
    [r EXCEPT !.phase = "calling", !.retries = r.retries + 1, !.calls = r.calls + 1]

Invoke(client, maxRetries) ==
    /\ run.phase = "idle"
    /\ run' = generateContentWithRetry(client, maxRetries)

BackendResponds ==
    /\ run.phase = "calling"
    /\ run' = Responds(run)

BackendRejects(error) ==
    /\ run.phase = "calling"
    /\ run' = Rejects(run, error)

BackoffEnds ==
    /\ run.phase = "backoff"
    /\ run' = TimerEnds(run)

RetryIdle ==
    /\ ScorerIdle
    /\ DashIdle
    /\ GraphMounted("null")
    /\ ServiceIdle

RetryOnly == UNCHANGED <<scoreVars, dashVars, graphVars, pending, analysisCache, teamCache,
                         clients, backendCalls, serviceEvent>>

NextRetry ==
    \/ \E client \in BOOLEAN, maxRetries \in 0..RetryLimit : Invoke(client, maxRetries) /\ RetryOnly
    \/ BackendResponds /\ RetryOnly
    \/ \E error \in Errors : BackendRejects(error) /\ RetryOnly
    \/ BackoffEnds /\ RetryOnly

\* the awaited call of generateContent settles and the timer ends
RetryFairness ==
    /\ WF_vars((BackendResponds \/ \E error \in Errors : BackendRejects(error)) /\ RetryOnly)
    /\ WF_vars(BackoffEnds /\ RetryOnly)

SpecRetry == RetryIdle /\ [][NextRetry]_vars /\ RetryFairness

\* the invocation has returned or thrown
Settled == run.phase \in {"returned", "thrown"}

\* C29: every invocation returns or throws, having made at most maxRetries + 1
\* calls of generateContent; every error but the last one caught was a
\* rate-limit error caught with retries left; what is thrown is the last
\* error caught, which is not a rate-limit error or was caught with no retry
\* left; a response is returned by the call that got it, and nothing is
\* called after the invocation has returned or thrown.
C29_RetryTerminatesWithinLimit ==
    /\ [](run.phase /= "idle" =>
            /\ run.calls <= run.maxRetries + 1
            /\ run.retries <= run.maxRetries
            /\ \A i \in 1..run.retries : isRateLimit(run.errors[i])
            /\ run.phase = "calling" => run.calls = run.retries + 1 /\ Len(run.errors) = run.retries
            /\ run.phase = "backoff" => run.calls = run.retries + 1 /\ Len(run.errors) = run.retries + 1
                                         /\ isRateLimit(run.errors[Len(run.errors)])
                                         /\ run.retries < run.maxRetries
            /\ run.phase = "returned" => run.calls = Len(run.errors) + 1 /\ Len(run.errors) = run.retries
            /\ (run.phase = "thrown" /\ run.client) =>
                  /\ run.calls = Len(run.errors) /\ run.calls = run.retries + 1
                  /\ run.thrown = run.errors[Len(run.errors)]
                  /\ ~isRateLimit(run.thrown) \/ run.retries = run.maxRetries
            /\ (run.phase = "thrown" /\ ~run.client) => run.calls = 0)
    /\ [][Settled => run' = run]_vars
    /\ (run.phase /= "idle") ~> Settled

\* with the default of two retries, two rate-limit errors were followed by a
\* response: three calls were made
C29_Witness ==
    /\ run.phase = "returned"
    /\ run.maxRetries = 2
    /\ run.calls = 3
    /\ run.errors = <<"status429", "message429">>

(***************************************************************************)
(* The service functions and the offline flag                              *)
(***************************************************************************)
\* service calls that may be in flight together, and clients created in all
MaxPending == 2

MaxClients == 2

\* the names analyzePokemon is called with, and promptText of generateTeam
ServiceNames == {"Zygarde", " zygarde", "Pikachu"}

Prompts == {"rain team"}

\* pokemonName.trim().toLowerCase()
normalizedName(pokemonName) ==
    IF pokemonName \in {"Zygarde", " zygarde"} THEN "zygarde" ELSE "pikachu"

\* getPreloadedAnalysis: Zygarde is in PRELOADED_ANALYSIS_MAP, Pikachu is not
getPreloadedAnalysis(name) == IF name = "zygarde" THEN "preloaded" ELSE "null"

\* getAiClient: no client while offline, and offline from the first call
\* that finds no API key
getAiClient ==
    IF isGlobalOffline THEN [client |-> FALSE, offline |-> TRUE]
    ELSE IF ~apiKey THEN [client |-> FALSE, offline |-> TRUE]
    ELSE [client |-> TRUE, offline |-> FALSE]

Cached(cache, key) == {c \in cache : c.key = key}

\* cache[key] = data
Put(cache, key, value) == {c \in cache : c.key /= key} \cup {[key |-> key, data |-> value]}

\* analyzePokemon up to its first await: the cache, the preloaded analyses,
\* the offline flag, the client.  localStorage is written together with
\* analysisCache and is not kept apart from it.
analyzePokemonCall(pokemonName) ==
    LET cacheKey == normalizedName(pokemonName)
    IN  IF Cached(analysisCache, cacheKey) /= {}
        THEN [phase |-> "resolved", origin |-> "cached", offline |-> isGlobalOffline,
              cache |-> analysisCache]
        ELSE IF getPreloadedAnalysis(cacheKey) /= "null"
        THEN [phase |-> "resolved", origin |-> "preloaded", offline |-> isGlobalOffline,
              cache |-> Put(analysisCache, cacheKey, getPreloadedAnalysis(cacheKey))]
        ELSE IF isGlobalOffline
        THEN [phase |-> "resolved", origin |-> "mock", offline |-> TRUE, cache |-> analysisCache]
        ELSE IF ~getAiClient.client
        THEN [phase |-> "resolved", origin |-> "mock", offline |-> getAiClient.offline,
              cache |-> analysisCache]
        ELSE [phase |-> "backend", origin |-> "backend", offline |-> getAiClient.offline,
              cache |-> analysisCache]

\* generateTeam with the mock team kept in teamCache
generateTeam_MockCached(promptText) ==
    IF Cached(teamCache, promptText) /= {}
    THEN [phase |-> "resolved", origin |-> "cached", offline |-> isGlobalOffline, cache |-> teamCache]
    ELSE IF isGlobalOffline
    THEN [phase |-> "resolved", origin |-> "mock", offline |-> TRUE,
          cache |-> Put(teamCache, promptText, "mock")]
    ELSE IF ~getAiClient.client
    THEN [phase |-> "resolved", origin |-> "mock", offline |-> getAiClient.offline,
          cache |-> Put(teamCache, promptText, "mock")]
    ELSE [phase |-> "backend", origin |-> "backend", offline |-> getAiClient.offline, cache |-> teamCache]

\* generateTeam up to its first await
generateTeam(promptText) ==
    IF Cached(teamCache, promptText) /= {}
    THEN [phase |-> "resolved", origin |-> "cached", offline |-> isGlobalOffline, cache |-> teamCache]
    ELSE IF isGlobalOffline
    THEN [phase |-> "resolved", origin |-> "mock", offline |-> TRUE, cache |-> teamCache]
    ELSE IF ~getAiClient.client
    THEN [phase |-> "resolved", origin |-> "mock", offline |-> getAiClient.offline, cache |-> teamCache]
    ELSE [phase |-> "backend", origin |-> "backend", offline |-> getAiClient.offline, cache |-> teamCache]

\* where the list getMetaAnalysis resolves with at once comes from
metaOrigin(gen, season) ==
    IF CachedMeta(CacheKey(gen, season)) /= {} THEN "cached" ELSE "fallback"

\* a call went on to the backend: a client was created and
\* generateContentWithRetry made its first call with the default maxRetries
Dispatched(fn, key, c) ==
    IF c.phase = "backend"
    THEN /\ Len(pending) < MaxPending
         /\ clients < MaxClients
         /\ clients' = clients + 1
         /\ backendCalls' = backendCalls + 1
         /\ pending' = Append(pending, [fn |-> fn, key |-> key, r |-> generateContentWithRetry(TRUE, 2)])
         /\ serviceEvent' = [type |-> "await", fn |-> fn, origin |-> "backend"]
    ELSE /\ serviceEvent' = [type |-> "return", fn |-> fn, origin |-> c.origin]
         /\ UNCHANGED <<clients, backendCalls, pending>>

ServiceOnly == UNCHANGED <<scoreVars, graphVars, run, appGeneration, appSeason, metaDataCache,
                           dashLoading, retryCount, fetches, effectPending, apiKey>>

CallGetMetaAnalysis(gen, season) ==
    /\ LET c == getMetaAnalysis(gen, season)
       IN  /\ Dispatched("meta", CacheKey(gen, season),
                         [phase |-> c.phase, origin |-> metaOrigin(gen, season)])
           /\ isGlobalOffline' = c.offline
    /\ UNCHANGED <<metaCache, analysisCache, teamCache>>

CallAnalyzePokemon(pokemonName) ==
    /\ LET c == analyzePokemonCall(pokemonName)
       IN  /\ Dispatched("analysis", normalizedName(pokemonName), c)
           /\ isGlobalOffline' = c.offline
           /\ analysisCache' = c.cache
    /\ UNCHANGED <<metaCache, teamCache>>

CallGenerateTeam(promptText) ==
    /\ LET c == generateTeam(promptText)
       IN  /\ Dispatched("team", promptText, c)
           /\ isGlobalOffline' = c.offline
           /\ teamCache' = c.cache
    /\ UNCHANGED <<metaCache, analysisCache>>

\* the response of a call: "ok" parses, "bad" makes JSON.parse throw; for
\* the meta list, what it parses to
Responses == {"ok", "bad"}

\* the try of a service function after generateContentWithRetry returned:
\* the parsed result is cached and returned; the catch returns the fallback
\* or mock data and caches nothing
ResponseArrives(k, response, parsed) ==
    /\ k \in DOMAIN pending
    /\ pending[k].r.phase = "calling"
    /\ pending' = Without(pending, k)
    /\ LET fn == pending[k].fn
           key == pending[k].key
           calculatedData == ScoredLists[parsed, IF fn = "meta" THEN key.generation ELSE "gen9"]
           caught == response = "bad" \/ (fn = "meta" /\ calculatedData.threw)
       IN  /\ metaCache' = IF fn = "meta" /\ ~caught
                           THEN Put(metaCache, key, calculatedData.list) ELSE metaCache
           /\ analysisCache' = IF fn = "analysis" /\ ~caught
                               THEN Put(analysisCache, key, "backend") ELSE analysisCache
           /\ teamCache' = IF fn = "team" /\ ~caught
                           THEN Put(teamCache, key, "backend") ELSE teamCache
           /\ serviceEvent' = [type |-> "return", fn |-> fn,
                               origin |-> IF ~caught THEN "backend"
                                          ELSE IF fn = "meta" THEN "fallback" ELSE "mock"]
    /\ UNCHANGED <<clients, backendCalls, isGlobalOffline>>

\* the errors a call of a service function is rejected with: a rate-limit
\* error and another one
ServiceErrors == {"status429", "other"}

\* a call of generateContent rejects: generateContentWithRetry starts its
\* timer, or throws into the catch of the service function
ErrorArrives(k, error) ==
    /\ k \in DOMAIN pending
    /\ pending[k].r.phase = "calling"
    /\ LET r == Rejects(pending[k].r, error)
       IN  IF r.phase = "thrown"
           THEN /\ pending' = Without(pending, k)
                /\ serviceEvent' = [type |-> "return", fn |-> pending[k].fn,
                                    origin |-> IF pending[k].fn = "meta" THEN "fallback" ELSE "mock"]
           ELSE /\ pending' = [pending EXCEPT ![k].r = r]
                /\ serviceEvent' = [type |-> "backoff", fn |-> pending[k].fn, origin |-> "backend"]
    /\ UNCHANGED <<clients, backendCalls, isGlobalOffline, metaCache, analysisCache, teamCache>>

\* the timer of generateContentWithRetry ends: the next call of generateContent
RetryCalls(k) ==
    /\ k \in DOMAIN pending
    /\ pending[k].r.phase = "backoff"
    /\ pending' = [pending EXCEPT ![k].r = TimerEnds(pending[k].r)]
    /\ backendCalls' = backendCalls + 1
    /\ serviceEvent' = [type |-> "await", fn |-> pending[k].fn, origin |-> "backend"]
    /\ UNCHANGED <<clients, isGlobalOffline, metaCache, analysisCache, teamCache>>

\* what localStorage can hold from an earlier visit when the page is loaded
StoredAnalyses == {{}, {[key |-> "pikachu", data |-> "backend"]}}

InitService ==
    /\ ScorerIdle
    /\ GraphMounted("null")
    /\ appGeneration = "legends-za"
    /\ appSeason = "season3"
    /\ metaDataCache = Null
    /\ dashLoading = FALSE
    /\ retryCount = 0
    /\ fetches = <<>>
    /\ effectPending = FALSE
    /\ metaCache = {}
    /\ apiKey \in BOOLEAN
    /\ isGlobalOffline = FALSE
    /\ run = [phase |-> "idle"]
    /\ pending = <<>>
    /\ analysisCache \in StoredAnalyses
    /\ teamCache = {}
    /\ clients = 0
    /\ backendCalls = 0
    /\ serviceEvent = [type |-> "none"]

NextService ==
    \/ \E gen \in Generations, season \in Seasons : CallGetMetaAnalysis(gen, season) /\ ServiceOnly
    \/ \E pokemonName \in ServiceNames : CallAnalyzePokemon(pokemonName) /\ ServiceOnly
    \/ \E promptText \in Prompts : CallGenerateTeam(promptText) /\ ServiceOnly
    \/ \E k \in 1..MaxPending, response \in Responses, parsed \in ParsedLists :
          ResponseArrives(k, response, parsed) /\ ServiceOnly
    \/ \E k \in 1..MaxPending, error \in ServiceErrors : ErrorArrives(k, error) /\ ServiceOnly
    \/ \E k \in 1..MaxPending : RetryCalls(k) /\ ServiceOnly

SpecService == InitService /\ [][NextService]_vars

\* C30: the offline flag, once true, stays true; in no step that ends with
\* the flag true is a client created or the backend called, and what a
\* service function does then is return cached, preloaded, fallback or mock
\* data; no cache ever holds the fallback list or a mock result.
C30_OfflineLatch ==
    /\ [][isGlobalOffline => isGlobalOffline']_vars
    /\ [][isGlobalOffline' =>
            /\ clients' = clients
            /\ backendCalls' = backendCalls
            /\ pending' = <<>>
            /\ serviceEvent' /= serviceEvent =>
                  /\ serviceEvent'.type = "return"
                  /\ serviceEvent'.origin \in {"cached", "preloaded", "fallback", "mock"}]_vars
    /\ [](/\ \A c \in analysisCache \cup teamCache : c.data /= "mock"
          /\ \A c \in metaCache : c.data /= Fallback(c.key.generation))

\* offline, after the preloaded analysis of Zygarde was served and cached,
\* generateTeam returned the mock team: no client was created, nothing is in
\* flight and teamCache is empty
C30_Witness ==
    /\ isGlobalOffline
    /\ serviceEvent = [type |-> "return", fn |-> "team", origin |-> "mock"]
    /\ Cached(analysisCache, "zygarde") /= {}
    /\ teamCache = {}
    /\ clients = 0 /\ backendCalls = 0 /\ pending = <<>>

====
